---- MODULE Spec2Model ----
(***************************************************************************)
(* State-machine model of two cores of DPVS:                               *)
(*   - the FNAT local-address (laddr) allocator, src/ipvs/ip_vs_laddr.c    *)
(*   - the keepalived quorum / health arbiter,                             *)
(*     tools/keepalived/keepalived/check/ipwrapper.c                       *)
(***************************************************************************)
EXTENDS Integers, Sequences, FiniteSets, TLC

(***************************************************************************)
(* Bounds of the model                                                     *)
(***************************************************************************)
\* number of lports one <lip, iface> pool owns on one lcore
PortsPerPool == 1
\* a laddr's refcnt is followed down to -MaxUnderflow
MaxUnderflow == 0

(***************************************************************************)
(* Program constants                                                       *)
(***************************************************************************)
dp_vs_laddr_max_trails == 16

\* pointer values: NULL, the address of the list sentinel (&svc->laddr_list),
\* the value a wild read faults on; the cells of laddr records are Slots
NULL == 0
LIST_HEAD == -1
SEGV == -2

\* lcore 0 is the master; the slave lcores are enabled in lcore_mask
Lcores == 0..2
lcore_mask == {1, 2}
\* LPORT mode: the low LportBits bits of an lport name the owning lcore
LportBits == 2

\* the (af, addr) pairs the control plane may configure
LAddrs == { [af |-> "AF_INET", addr |-> 1], [af |-> "AF_INET6", addr |-> 1] }
NoAddr == [af |-> "AF_UNSPEC", addr |-> 0]
IfNames == {"dpdk0", "nodev"}

\* a pool of one laddr more than a bind call tries
TrialLaddrs == dp_vs_laddr_max_trails + 1
TrialAddrs == {[af |-> "AF_INET", addr |-> i] : i \in 1..TrialLaddrs}

\* the cells a struct dp_vs_laddr can be allocated in
Slots == 1..TrialLaddrs

\* a record per configured address is all the allocator is asked for at once
HeapCells == Cardinality(LAddrs)

\* an address configured on dpdk0 without a port pool
UnpooledAddr == [af |-> "AF_INET6", addr |-> 2]

\* inet_addr_ifa_get: the addresses configured on dpdk0
HasIfa(a) == a \in LAddrs \cup TrialAddrs \cup {UnpooledAddr}
\* LADDR mode: ifa->sa_pools[cid], each <lip, iface> pre-bound to one lcore
sa_pools(a, cid) ==
    /\ HasIfa(a)
    /\ a # UnpooledAddr
    /\ cid = (IF a.af = "AF_INET" THEN 1 ELSE 2)

\* the connections of the data plane; each is owned by one lcore
Conns == {"c1", "c2", "c3", "tmpl", "nodest"}
ConnLcore(c) == IF c = "c3" THEN 2 ELSE 1
ConnTemplate(c) == c = "tmpl"
ConnHasDest(c) == c # "nodest"
ConnDest(c) == [daddr |-> "rs1", dport |-> 80]

VARIABLES
    SA_POOL_MODE,   \* "LPORT" or "LADDR", fixed at process start
    svc,            \* struct dp_vs_service: proto, scheduler, laddr pool
    laddr_mem,      \* the struct dp_vs_laddr cells (allocated or freed)
    conn,           \* struct dp_vs_conn fields the binder writes
    sa_pool,        \* <lip:lport> reservations held in the port pools
    crashed,        \* the process faulted on a wild pointer
    last            \* the last call and what it returned

lvars == <<SA_POOL_MODE, svc, laddr_mem, conn, sa_pool, crashed, last>>

(***************************************************************************)
(* list.h on a list kept as the sequence of its linked cells               *)
(***************************************************************************)
InList(list, node) == \E i \in 1..Len(list) : list[i] = node

IndexOf(list, node) == CHOOSE i \in 1..Len(list) : list[i] = node

list_empty(list) == list = <<>>

list_first(list) == IF list = <<>> THEN LIST_HEAD ELSE list[1]

list_next(list, node) ==
    IF node = LIST_HEAD THEN list_first(list)
    ELSE IF IndexOf(list, node) < Len(list)
         THEN list[IndexOf(list, node) + 1]
         ELSE LIST_HEAD

list_add_tail(list, node) == Append(list, node)

list_del(list, node) == SelectSeq(list, LAMBDA x : x # node)

\* the values a read of node->next can yield: the link of a linked node;
\* for a cell that was unlinked and freed the read is undefined: it faults
\* or yields whatever the cell holds by then
deref_next(list, node) ==
    IF node = LIST_HEAD \/ InList(list, node)
    THEN {list_next(list, node)}
    ELSE {SEGV, LIST_HEAD} \cup {list[i] : i \in 1..Len(list)}

(***************************************************************************)
(* struct dp_vs_laddr cells                                                *)
(***************************************************************************)
FreedCell == [live |-> FALSE, af |-> "AF_UNSPEC", addr |-> 0,
              refcnt |-> 0, conn_counts |-> 0]

NewCell(a) == [live |-> TRUE, af |-> a.af, addr |-> a.addr,
               refcnt |-> 0, conn_counts |-> 0]

CellAddr(m, l) == [af |-> m[l].af, addr |-> m[l].addr]

\* the allocator hands out the lowest free cell, so a freed cell is reused
rte_malloc(m) == CHOOSE l \in Slots : ~m[l].live /\ \A k \in 1..(l - 1) : m[k].live

rte_free(m, l) == [m EXCEPT ![l] = FreedCell]

get_laddr_ref(m, l) == [m EXCEPT ![l].refcnt = @ + 1]

put_laddr(m, l) == [m EXCEPT ![l].refcnt = @ - 1]

\* a bind that does not count the connection
inc_conn_counts_none(m, l) == m

inc_conn_counts(m, l) == [m EXCEPT ![l].conn_counts = @ + 1]

dec_conn_counts(m, l) == [m EXCEPT ![l].conn_counts = @ - 1]

(***************************************************************************)
(* sa_pool: the <lip:lport> port pools (external to ip_vs_laddr.c)         *)
(***************************************************************************)
\* the lports the pool of <lip, iface> on lcore cid owns
PoolPorts(a, cid) ==
    IF ~HasIfa(a) \/ cid \notin lcore_mask THEN {}
    ELSE IF SA_POOL_MODE = "LPORT"
         THEN {cid + (2 ^ LportBits) * k : k \in 0..(PortsPerPool - 1)}
         ELSE IF sa_pools(a, cid) THEN 1..PortsPerPool ELSE {}

SaTuple(cid, a, lport, dst) ==
    [lcore |-> cid, lip |-> a, lport |-> lport,
     daddr |-> dst.daddr, dport |-> dst.dport]

\* sa_fetch: the lports it may return for <dst, lip> on lcore cid; none
\* when the pool is exhausted (or absent)
sa_fetch(pool, cid, a, dst) ==
    {p \in PoolPorts(a, cid) : SaTuple(cid, a, p, dst) \notin pool}

sa_release(pool, cid, a, lport, dst) == pool \ {SaTuple(cid, a, lport, dst)}

(***************************************************************************)
(* select: __laddr_step, __get_laddr_port_mode, __get_laddr_addr_mode      *)
(***************************************************************************)
\* 5% of the sessions of an rr/wrr service step by two: either may happen
\* a step drawn at random for every scheduler
__laddr_step_any(s) == {1, 2}

__laddr_step(s) ==
    IF s.scheduler \in {"rr", "wrr"} THEN {1, 2} ELSE {1}

\* the cursor after `step` advances (the while loop of the port mode, one
\* advance in the addr mode); SEGV when a wild read faulted
RECURSIVE laddr_walk(_, _, _)
laddr_walk(list, curr, step) ==
    IF step <= 0 THEN {curr}
    ELSE UNION {
           IF nxt = SEGV THEN {SEGV}
           ELSE laddr_walk(list,
                           IF nxt = LIST_HEAD THEN list_first(list) ELSE nxt,
                           step - 1)
           : nxt \in (IF curr = NULL THEN {list_first(list)}
                                     ELSE deref_next(list, curr)) }

\* the outcomes of a select on the LPORT-mode list of the service
__get_laddr_port_mode(s, m) ==
    IF list_empty(s.laddr_list)
    THEN {[svc |-> s, mem |-> m, laddr |-> NULL]}
    ELSE { IF cur = SEGV
           THEN [svc |-> s, mem |-> m, laddr |-> SEGV]
           ELSE [svc |-> [s EXCEPT !.laddr_curr = cur],
                 mem |-> get_laddr_ref(m, cur), laddr |-> cur]
           : cur \in UNION { laddr_walk(s.laddr_list, s.laddr_curr, st)
                             : st \in __laddr_step(s) } }

\* the outcomes of a select on this lcore's list (svc->this_pre_list)
__get_laddr_addr_mode(s, m, cid) ==
    IF list_empty(s.pre_list[cid].laddr_list)
    THEN {[svc |-> s, mem |-> m, laddr |-> NULL]}
    ELSE { IF cur = SEGV
           THEN [svc |-> s, mem |-> m, laddr |-> SEGV]
           ELSE [svc |-> [s EXCEPT !.pre_list[cid].laddr_curr = cur],
                 mem |-> get_laddr_ref(m, cur), laddr |-> cur]
           : cur \in laddr_walk(s.pre_list[cid].laddr_list,
                                s.pre_list[cid].laddr_curr, 1) }

__get_laddr(s, m, cid) ==
    IF SA_POOL_MODE = "LPORT"
    THEN __get_laddr_port_mode(s, m)
    ELSE __get_laddr_addr_mode(s, m, cid)

(***************************************************************************)
(* dp_vs_laddr_bind                                                        *)
(***************************************************************************)
\* num_laddrs as read at entry, for the mode and the lcore
bind_num_laddrs(s, cid) ==
    IF SA_POOL_MODE = "LPORT" THEN s.num_laddrs
    ELSE s.pre_list[cid].num_laddrs

\* the for loop of dp_vs_laddr_bind from trial i on: the ways it can end.
\* exit = "break"    a port can be fetched on `laddr`
\*        "loop_end" the trials are used up; `laddr` is the last one tried
\*        "no_laddr" select returned NULL
\*        "segv"     select faulted
\* `tried` lists the laddrs select returned, in the order of the trials
Tried(l, outcomes) == {[o EXCEPT !.tried = <<l>> \o @] : o \in outcomes}

\* a loop that goes on until every laddr was counted
trial_allowed_uncapped(i, num_laddrs) == i < num_laddrs

\* the loop condition: i < dp_vs_laddr_max_trails && i < num_laddrs
trial_allowed(i, num_laddrs) ==
    i < dp_vs_laddr_max_trails /\ i < num_laddrs

RECURSIVE bind_trials(_, _, _, _, _, _, _)
bind_trials(i, num_laddrs, s, m, laddr, c, pool) ==
    IF ~trial_allowed(i, num_laddrs)
    THEN {[svc |-> s, mem |-> m, laddr |-> laddr, exit |-> "loop_end",
           tried |-> <<>>]}
    ELSE UNION {
           IF g.laddr = SEGV
           THEN {[svc |-> g.svc, mem |-> g.mem, laddr |-> laddr, exit |-> "segv",
                  tried |-> <<>>]}
           ELSE IF g.laddr = NULL
           THEN {[svc |-> g.svc, mem |-> g.mem, laddr |-> NULL,
                  exit |-> "no_laddr", tried |-> <<>>]}
           ELSE IF /\ SA_POOL_MODE = "LADDR"
                   /\ ~sa_pools(CellAddr(g.mem, g.laddr), ConnLcore(c))
           THEN \* not assigned on this lcore: try next laddr
                Tried(g.laddr,
                      bind_trials(i + 1, num_laddrs, g.svc, g.mem, g.laddr, c,
                                  pool))
           ELSE IF sa_fetch(pool, ConnLcore(c), CellAddr(g.mem, g.laddr),
                            ConnDest(c)) = {}
           THEN \* no lport available on this laddr: put it, try next
                Tried(g.laddr,
                      bind_trials(i + 1, num_laddrs, g.svc,
                                  put_laddr(g.mem, g.laddr), g.laddr, c, pool))
           ELSE {[svc |-> g.svc, mem |-> g.mem, laddr |-> g.laddr,
                  exit |-> "break", tried |-> <<g.laddr>>]}
           : g \in __get_laddr(s, m, ConnLcore(c)) }

\* after the loop, no port: if (laddr) put_laddr(laddr)
bind_fail_put(m, laddr) ==
    IF laddr # NULL THEN put_laddr(m, laddr) ELSE m

\* after the loop, a port: count the connection and stamp it
bind_stamp(cn, m, laddr, sport) ==
    [cn EXCEPT !.laddr = CellAddr(m, laddr), !.lport = sport,
               !.out_daddr = CellAddr(m, laddr), !.out_dport = sport,
               !.local = laddr]

RefcntFloor(m) == \A l \in Slots : m[l].refcnt >= 0 - MaxUnderflow

\* `last` keeps the call just made and its result when the call is one the
\* specification observes (obs), and NoCall after any other call
NoCall == [op |-> "none", arg |-> NoAddr, ret |-> "EDPVS_OK",
           conn |-> "none", tried |-> <<>>, ifname |-> "none"]

Ret(obs, op, arg, ret) ==
    IF obs THEN [NoCall EXCEPT !.op = op, !.arg = arg, !.ret = ret] ELSE NoCall

\* the same for a call on connection c; `tried` lists the laddrs a bind
\* selected, or the laddr an unbind released
RetConn(obs, op, c, tried, ret) ==
    IF obs THEN [NoCall EXCEPT !.op = op, !.ret = ret, !.conn = c,
                               !.tried = tried]
    ELSE NoCall

\* argument checks that look at the protocol first
bind_check_proto_first(c, s) ==
    IF s.proto \notin {"TCP", "UDP"} THEN "EDPVS_NOTSUPP"
    ELSE IF ~ConnHasDest(c) THEN "EDPVS_INVAL"
    ELSE "EDPVS_OK"

\* the argument checks at entry: !conn->dest, then svc->proto
bind_check_args(c, s) ==
    IF ~ConnHasDest(c) THEN "EDPVS_INVAL"
    ELSE IF s.proto \notin {"TCP", "UDP"} THEN "EDPVS_NOTSUPP"
    ELSE "EDPVS_OK"

\* the same for an add of address a on the interface named ifname
RetAdd(obs, a, ifname, ret) ==
    IF obs THEN [NoCall EXCEPT !.op = "add", !.arg = a, !.ifname = ifname,
                               !.ret = ret]
    ELSE NoCall

dp_vs_laddr_bind(c, obs) ==
    /\ ~crashed
    /\ conn[c].local = NULL
    /\ IF bind_check_args(c, svc) # "EDPVS_OK"
       THEN /\ last' = RetConn(obs, "bind", c, <<>>, bind_check_args(c, svc))
            /\ UNCHANGED <<SA_POOL_MODE, svc, laddr_mem, conn, sa_pool, crashed>>
       ELSE IF ConnTemplate(c)
       THEN /\ last' = RetConn(obs, "bind", c, <<>>, "EDPVS_OK")
            /\ UNCHANGED <<SA_POOL_MODE, svc, laddr_mem, conn, sa_pool, crashed>>
       ELSE \E o \in bind_trials(0, bind_num_laddrs(svc, ConnLcore(c)), svc,
                                 laddr_mem, NULL, c, sa_pool) :
              CASE o.exit = "segv" ->
                     /\ crashed' = TRUE
                     /\ svc' = o.svc
                     /\ laddr_mem' = o.mem
                     /\ last' = RetConn(obs, "bind", c, o.tried, "SIGSEGV")
                     /\ UNCHANGED <<SA_POOL_MODE, conn, sa_pool>>
                [] o.exit = "no_laddr" ->
                     /\ svc' = o.svc
                     /\ laddr_mem' = o.mem
                     /\ RefcntFloor(laddr_mem')
                     /\ last' = RetConn(obs, "bind", c, o.tried, "EDPVS_RESOURCE")
                     /\ UNCHANGED <<SA_POOL_MODE, conn, sa_pool, crashed>>
                [] o.exit = "loop_end" ->
                     /\ svc' = o.svc
                     /\ laddr_mem' = bind_fail_put(o.mem, o.laddr)
                     /\ RefcntFloor(laddr_mem')
                     /\ last' = RetConn(obs, "bind", c, o.tried, "EDPVS_RESOURCE")
                     /\ UNCHANGED <<SA_POOL_MODE, conn, sa_pool, crashed>>
                [] o.exit = "break" ->
                     \E sport \in sa_fetch(sa_pool, ConnLcore(c),
                                           CellAddr(o.mem, o.laddr), ConnDest(c)) :
                        /\ svc' = o.svc
                        /\ sa_pool' = sa_pool \cup
                              {SaTuple(ConnLcore(c), CellAddr(o.mem, o.laddr),
                                       sport, ConnDest(c))}
                        /\ laddr_mem' = inc_conn_counts(o.mem, o.laddr)
                        /\ conn' = [conn EXCEPT
                                      ![c] = bind_stamp(@, o.mem, o.laddr, sport)]
                        /\ last' = RetConn(obs, "bind", c, o.tried, "EDPVS_OK")
                        /\ UNCHANGED <<SA_POOL_MODE, crashed>>

(***************************************************************************)
(* dp_vs_laddr_unbind                                                      *)
(***************************************************************************)
\* rte_atomic32_dec(&conn->local->conn_counts); put_laddr(conn->local)
unbind_counts(m, l) == put_laddr(dec_conn_counts(m, l), l)

\* an unbind that keeps the reservation
unbind_release_none(pool, c, cn) == pool

unbind_release(pool, c, cn) ==
    sa_release(pool, ConnLcore(c), cn.laddr, cn.lport, ConnDest(c))

\* an unbind that leaves conn->local as it was
unbind_keep(cn) == cn

\* conn->local = NULL
unbind_clear(cn) == [cn EXCEPT !.local = NULL]

dp_vs_laddr_unbind(c, obs) ==
    /\ ~crashed
    /\ IF ConnTemplate(c) \/ conn[c].local = NULL
       THEN /\ last' = RetConn(obs, "unbind", c, <<>>, "EDPVS_OK")
            /\ UNCHANGED <<SA_POOL_MODE, svc, laddr_mem, conn, sa_pool, crashed>>
       ELSE IF laddr_mem[conn[c].local].live
       THEN /\ sa_pool' = unbind_release(sa_pool, c, conn[c])
            /\ laddr_mem' = unbind_counts(laddr_mem, conn[c].local)
            /\ RefcntFloor(laddr_mem')
            /\ conn' = [conn EXCEPT ![c] = unbind_clear(@)]
            /\ last' = RetConn(obs, "unbind", c, <<conn[c].local>>, "EDPVS_OK")
            /\ UNCHANGED <<SA_POOL_MODE, svc, crashed>>
       ELSE \* conn->local was freed: the reads and writes through it are
            \* undefined; the call faults, or runs on the stale cell
            \/ /\ crashed' = TRUE
               /\ last' = RetConn(obs, "unbind", c, <<conn[c].local>>, "SIGSEGV")
               /\ UNCHANGED <<SA_POOL_MODE, svc, laddr_mem, conn, sa_pool>>
            \/ /\ sa_pool' = unbind_release(sa_pool, c, conn[c])
               /\ conn' = [conn EXCEPT ![c] = unbind_clear(@)]
               /\ last' = RetConn(obs, "unbind", c, <<conn[c].local>>, "EDPVS_OK")
               /\ UNCHANGED <<SA_POOL_MODE, svc, laddr_mem, crashed>>

(***************************************************************************)
(* add / del / flush on one list (laddr_list, laddr_curr, num_laddrs)      *)
(***************************************************************************)
PortSlice(s) == [laddr_list |-> s.laddr_list, laddr_curr |-> s.laddr_curr,
                 num_laddrs |-> s.num_laddrs]

WithPortSlice(s, sl) == [s EXCEPT !.laddr_list = sl.laddr_list,
                                  !.laddr_curr = sl.laddr_curr,
                                  !.num_laddrs = sl.num_laddrs]

\* a comparison that takes every record for another address
laddr_match_never(m, l, a) == FALSE

\* af == curr->af && inet_addr_equal(af, &curr->addr, addr)
laddr_match(m, l, a) == a.af = m[l].af /\ a.addr = m[l].addr

SliceHas(sl, m, a) ==
    \E i \in 1..Len(sl.laddr_list) : laddr_match(m, sl.laddr_list[i], a)

\* the first entry of the list that matches (list_for_each_entry ... break)
SliceFind(sl, m, a) ==
    sl.laddr_list[CHOOSE i \in 1..Len(sl.laddr_list) :
                    /\ laddr_match(m, sl.laddr_list[i], a)
                    /\ \A j \in 1..(i - 1) : ~laddr_match(m, sl.laddr_list[j], a)]

slice_add_tail(sl, new) ==
    [sl EXCEPT !.laddr_list = list_add_tail(@, new), !.num_laddrs = @ + 1]

\* the body of the "found" branch of del when refcnt == 0
slice_unlink(sl, laddr) ==
    [sl EXCEPT !.laddr_curr = IF @ = laddr
                              THEN list_next(sl.laddr_list, laddr) ELSE @,
               !.laddr_list = list_del(@, laddr),
               !.num_laddrs = @ - 1]

\* a test that lets a record go while one reference is left
laddr_unused_once(m, l) == m[l].refcnt <= 1

\* the test that lets del and flush destroy a record
laddr_unused(m, l) == m[l].refcnt = 0

\* one list's part of del: err stays as it was when nothing matches
slice_del(sl, m, a, err) ==
    IF ~SliceHas(sl, m, a)
    THEN [err |-> err, slice |-> sl, mem |-> m]
    ELSE IF laddr_unused(m, SliceFind(sl, m, a))
    THEN [err |-> "EDPVS_OK", slice |-> slice_unlink(sl, SliceFind(sl, m, a)),
          mem |-> rte_free(m, SliceFind(sl, m, a))]
    ELSE [err |-> "EDPVS_BUSY", slice |-> sl, mem |-> m]

\* a flush that takes every record out of the list
slice_flush_all(sl, m, err) ==
    [err   |-> err,
     slice |-> [sl EXCEPT !.laddr_list = <<>>, !.num_laddrs = 0],
     mem   |-> [l \in Slots |->
                  IF \E i \in 1..Len(sl.laddr_list) : sl.laddr_list[i] = l
                  THEN FreedCell ELSE m[l]]]

\* one list's part of flush: laddr_curr is not touched
slice_flush(sl, m, err) ==
    LET gone == {sl.laddr_list[i] : i \in {j \in 1..Len(sl.laddr_list) :
                                              laddr_unused(m, sl.laddr_list[j])}}
    IN  [err   |-> IF \E i \in 1..Len(sl.laddr_list) :
                        ~laddr_unused(m, sl.laddr_list[i])
                   THEN "EDPVS_BUSY" ELSE err,
         slice |-> [sl EXCEPT !.laddr_list = SelectSeq(@, LAMBDA x : x \notin gone),
                              !.num_laddrs = @ - Cardinality(gone)],
         mem   |-> [l \in Slots |-> IF l \in gone THEN FreedCell ELSE m[l]]]

(***************************************************************************)
(* dp_vs_laddr_add                                                         *)
(***************************************************************************)
__dp_vs_laddr_add_port_mode(s, m, a, new) ==
    IF SliceHas(PortSlice(s), m, a)
    THEN [err |-> "EDPVS_EXIST", svc |-> s]
    ELSE [err |-> "EDPVS_OK",
          svc |-> WithPortSlice(s, slice_add_tail(PortSlice(s), new))]

__dp_vs_laddr_add_addr_mode(s, m, a, new) ==
    IF \E cid \in Lcores : SliceHas(s.pre_list[cid], m, a)
    THEN [err |-> "EDPVS_EXIST", svc |-> s]
    ELSE IF ~HasIfa(a)
    THEN [err |-> "EDPVS_NOTEXIST", svc |-> s]
    ELSE [err |-> "EDPVS_OK",
          svc |-> [s EXCEPT !.pre_list =
                     [cid \in Lcores |->
                        IF cid \in lcore_mask /\ sa_pools(a, cid)
                        THEN slice_add_tail(s.pre_list[cid], new)
                        ELSE s.pre_list[cid]]]]

netif_port_get_by_name(ifname) == IF ifname = "dpdk0" THEN "dpdk0" ELSE "NULL"

dp_vs_laddr_add(a, ifname, obs) ==
    /\ ~crashed
    /\ IF Cardinality({l \in Slots : laddr_mem[l].live}) >= HeapCells
       THEN /\ last' = RetAdd(obs, a, ifname, "EDPVS_NOMEM")
            /\ UNCHANGED <<SA_POOL_MODE, svc, laddr_mem, conn, sa_pool, crashed>>
       ELSE IF netif_port_get_by_name(ifname) = "NULL"
       THEN /\ last' = RetAdd(obs, a, ifname, "EDPVS_NOTEXIST")
            /\ UNCHANGED <<SA_POOL_MODE, svc, laddr_mem, conn, sa_pool, crashed>>
       ELSE LET new == rte_malloc(laddr_mem)
                r == IF SA_POOL_MODE = "LPORT"
                       THEN __dp_vs_laddr_add_port_mode(svc, laddr_mem, a, new)
                       ELSE __dp_vs_laddr_add_addr_mode(svc, laddr_mem, a, new)
            IN  /\ svc' = r.svc
                /\ laddr_mem' = IF r.err = "EDPVS_OK"
                                THEN [laddr_mem EXCEPT ![new] = NewCell(a)]
                                ELSE laddr_mem
                /\ last' = RetAdd(obs, a, ifname, r.err)
                /\ UNCHANGED <<SA_POOL_MODE, conn, sa_pool, crashed>>

(***************************************************************************)
(* dp_vs_laddr_del                                                         *)
(***************************************************************************)
__dp_vs_laddr_del_port_mode(s, m, a) ==
    LET r == slice_del(PortSlice(s), m, a, "EDPVS_NOTEXIST")
    IN  [err |-> r.err, svc |-> WithPortSlice(s, r.slice), mem |-> r.mem]

\* the loop over the lcores, in ascending order, from those in `todo` on
RECURSIVE del_addr_mode_loop(_, _, _, _, _)
del_addr_mode_loop(todo, s, m, a, err) ==
    IF todo = {} THEN [err |-> err, svc |-> s, mem |-> m]
    ELSE LET cid == CHOOSE x \in todo : \A y \in todo : x <= y
             r   == slice_del(s.pre_list[cid], m, a, err)
         IN  IF cid \notin lcore_mask
             THEN del_addr_mode_loop(todo \ {cid}, s, m, a, err)
             ELSE del_addr_mode_loop(todo \ {cid},
                                     [s EXCEPT !.pre_list[cid] = r.slice],
                                     r.mem, a, r.err)

__dp_vs_laddr_del_addr_mode(s, m, a) ==
    del_addr_mode_loop(Lcores, s, m, a, "EDPVS_NOTEXIST")

dp_vs_laddr_del(a, obs) ==
    /\ ~crashed
    /\ LET r == IF SA_POOL_MODE = "LPORT"
                THEN __dp_vs_laddr_del_port_mode(svc, laddr_mem, a)
                ELSE __dp_vs_laddr_del_addr_mode(svc, laddr_mem, a)
       IN  /\ svc' = r.svc
           /\ laddr_mem' = r.mem
           /\ last' = Ret(obs, "del", a, r.err)
    /\ UNCHANGED <<SA_POOL_MODE, conn, sa_pool, crashed>>

(***************************************************************************)
(* dp_vs_laddr_flush                                                       *)
(***************************************************************************)
__dp_vs_laddr_flush_port_mode(s, m) ==
    LET r == slice_flush(PortSlice(s), m, "EDPVS_OK")
    IN  [err |-> r.err, svc |-> WithPortSlice(s, r.slice), mem |-> r.mem]

RECURSIVE flush_addr_mode_loop(_, _, _, _)
flush_addr_mode_loop(todo, s, m, err) ==
    IF todo = {} THEN [err |-> err, svc |-> s, mem |-> m]
    ELSE LET cid == CHOOSE x \in todo : \A y \in todo : x <= y
             r   == slice_flush(s.pre_list[cid], m, err)
         IN  IF cid \notin lcore_mask
             THEN flush_addr_mode_loop(todo \ {cid}, s, m, err)
             ELSE flush_addr_mode_loop(todo \ {cid},
                                       [s EXCEPT !.pre_list[cid] = r.slice],
                                       r.mem, r.err)

__dp_vs_laddr_flush_addr_mode(s, m) ==
    flush_addr_mode_loop(Lcores, s, m, "EDPVS_OK")

dp_vs_laddr_flush(obs) ==
    /\ ~crashed
    /\ LET r == IF SA_POOL_MODE = "LPORT"
                THEN __dp_vs_laddr_flush_port_mode(svc, laddr_mem)
                ELSE __dp_vs_laddr_flush_addr_mode(svc, laddr_mem)
       IN  /\ svc' = r.svc
           /\ laddr_mem' = r.mem
           /\ last' = Ret(obs, "flush", NoAddr, r.err)
    /\ UNCHANGED <<SA_POOL_MODE, conn, sa_pool, crashed>>

(***************************************************************************)
(* keepalived check/ipwrapper.c: one virtual server, its real servers, its *)
(* sorry server and their checkers                                         *)
(***************************************************************************)
\* vs->rs in list order
RsList == <<"rs1", "rs2", "rs3", "rs4">>
RServers == {RsList[i] : i \in 1..Len(RsList)}

\* one checker per real server
Checkers == {"ck1", "ck2", "ck3", "ck4"}
\* a second checker, which a configuration can give real server rs1
SecondChecker == "ck5"
CheckerRs(k) == CASE k = "ck1" -> "rs1" [] k = "ck2" -> "rs2"
                  [] k = "ck3" -> "rs3" [] k = "ck4" -> "rs4"
                  [] k = SecondChecker -> "rs1"

\* the weights the dynamic-weight checker of DynRs reports
DynRs == "rs4"
Weights == {1, 2}

\* the (quorum, hysteresis) pairs of the configurations checked
QuorumConfigs == {<<3, 1>>, <<1, 1>>, <<1, 2>>}

VARIABLES
    LONG_BIT,   \* width of `long` in the build: 32 or 64
    vs,         \* virtual_server_t: configuration and state
    rs,         \* real_server_t of every real server of vs->rs
    s_svr,      \* real_server_t of the sorry server (when vs.has_s_svr)
    checker,    \* checker_t of every checker
    fifo,       \* the notifications the last handler emitted, in order
    qlast,      \* the last handler, and whether it evaluated the quorum
    phase       \* "config", "running", "reloaded", "removed", "stopped"

qvars == <<LONG_BIT, vs, rs, s_svr, checker, fifo, qlast, phase>>

\* the objects a handler works on, threaded through the calls it makes
World == [vs |-> vs, rs |-> rs, s_svr |-> s_svr, fifo |-> <<>>,
          cmds |-> <<>>, plane_failed |-> FALSE, evaluated |-> FALSE,
          init |-> FALSE]

(***************************************************************************)
(* C integers wider than the model checker's: hi * 2^32 + lo               *)
(***************************************************************************)
Wide(hi, lo) == [hi |-> hi, lo |-> lo]

\* the value of x as an unsigned int (x modulo 2^32), for |x| < 2^31
ToUnsigned(x) == IF x >= 0 THEN Wide(0, x) ELSE Wide(1, x)

\* an unsigned int stored in a long: a 64-bit long holds it; in a 32-bit
\* long the values from 2^31 on come out negative
UnsignedToLong(u, bits) == IF bits = 64 THEN u ELSE Wide(0, u.lo)

ToLong(x) == Wide(0, x)

WideLess(a, b) == a.hi < b.hi \/ (a.hi = b.hi /\ a.lo < b.lo)

\* C's integer division truncates toward zero
CDiv(a, b) == IF a >= 0 THEN a \div b ELSE 0 - ((0 - a) \div b)

(***************************************************************************)
(* the forwarding plane and the notification sinks                         *)
(***************************************************************************)
\* ipvs_cmd on a destination: what it leaves in the server's `set` flag; a
\* destination with inhibit_on_failure is kept in the plane with weight 0
ipvs_cmd(cmd, svr) ==
    IF cmd = "LVS_CMD_ADD_DEST" THEN [svr EXCEPT !.set = TRUE]
    ELSE IF cmd = "LVS_CMD_DEL_DEST"
    THEN [svr EXCEPT !.set = IF svr.inhibit THEN @ ELSE FALSE]
    ELSE svr

\* the commands the handler has issued to the plane so far, in order; id is
\* a real server, SorryId for vs->s_svr, VsId for the virtual server itself
SorryId == "s_svr"
VsId == "vs"
ipvs_talk(w, cmd, id) ==
    [w EXCEPT !.cmds = Append(@, [cmd |-> cmd, id |-> id])]

\* ipvs_cmd(cmd, vs, rs) for the real server r
ipvs_cmd_rs(w, cmd, r) ==
    ipvs_talk([w EXCEPT !.rs[r] = ipvs_cmd(cmd, @)], cmd, r)

\* ipvs_cmd(cmd, vs, vs->s_svr)
ipvs_cmd_s_svr(w, cmd) ==
    ipvs_talk([w EXCEPT !.s_svr = ipvs_cmd(cmd, @)], cmd, SorryId)

UpDown(b) == IF b THEN "UP" ELSE "DOWN"

\* a line that reports the state the virtual server is not in
notify_fifo_vs_inverted(w) ==
    [w EXCEPT !.fifo = Append(@, [kind |-> "VS", id |-> "vs",
                                  state |-> UpDown(~w.vs.quorum_state_up)])]

notify_fifo_vs(w) ==
    [w EXCEPT !.fifo = Append(@, [kind |-> "VS", id |-> "vs",
                                  state |-> UpDown(w.vs.quorum_state_up)])]

notify_fifo_rs(w, r) ==
    [w EXCEPT !.fifo = Append(@, [kind |-> "RS", id |-> r,
                                  state |-> UpDown(w.rs[r].alive)])]

\* the other sinks, in a configuration that has all of them: notify scripts
\* set, smtp_alert on, SNMP traps built in and enabled. Each writes one
\* entry of its own kind to the log of the handler.
Notified(w, kind, id, state) ==
    [w EXCEPT !.fifo = Append(@, [kind |-> kind, id |-> id, state |-> state])]

check_snmp_quorum_trap(w) ==
    Notified(w, "VS_TRAP", "vs", UpDown(w.vs.quorum_state_up))

check_snmp_rs_trap(w, r) == Notified(w, "RS_TRAP", r, UpDown(w.rs[r].alive))

notify_exec_vs(w) == Notified(w, "VS_SCRIPT", "vs", UpDown(w.vs.quorum_state_up))

notify_exec_rs(w, r) == Notified(w, "RS_SCRIPT", r, UpDown(w.rs[r].alive))

smtp_alert_vs(w) == Notified(w, "VS_SMTP", "vs", UpDown(w.vs.quorum_state_up))

smtp_alert_rs(w, r) == Notified(w, "RS_SMTP", r, "DOWN")

\* a virtual server that never notifies
do_vs_notifies_never(w, stopping) == w

\* a virtual server that notifies every sink, stopping or not
do_vs_notifies_all(w, stopping) ==
    smtp_alert_vs(notify_fifo_vs(notify_exec_vs(check_snmp_quorum_trap(w))))

\* only the SNMP trap is sent when stopping without omega
do_vs_notifies(w, stopping) ==
    IF stopping /\ ~w.vs.omega THEN check_snmp_quorum_trap(w)
    ELSE smtp_alert_vs(notify_fifo_vs(notify_exec_vs(check_snmp_quorum_trap(w))))

do_rs_notifies(w, r) ==
    check_snmp_rs_trap(notify_fifo_rs(notify_exec_rs(w, r), r), r)

\* rs_aratio_action(limit, vs): the configured command is run
rs_aratio_action(w, limit) ==
    IF w.vs.rs_aratio_action
    THEN [w EXCEPT !.fifo = Append(@, [kind |-> "ARATIO", id |-> "vs",
                                       state |-> limit])]
    ELSE w

(***************************************************************************)
(* the quorum: weigh_live_realservers, perform_quorum_state,               *)
(* update_quorum_state                                                     *)
(***************************************************************************)
RECURSIVE SumAliveWeight(_, _)
SumAliveWeight(servers, todo) ==
    IF todo = {} THEN 0
    ELSE LET r == CHOOSE x \in todo : TRUE
         IN  (IF servers[r].alive THEN servers[r].weight ELSE 0)
             + SumAliveWeight(servers, todo \ {r})

weigh_live_realservers(w) == SumAliveWeight(w.rs, RServers)

\* the alive real servers are left as they are in the plane
perform_quorum_state_none(w, add) == w

\* add or remove the alive real servers; their alive flag ends as it was
RECURSIVE perform_quorum_state_loop(_, _, _)
perform_quorum_state_loop(w, cmd, i) ==
    IF i > Len(RsList) THEN w
    ELSE perform_quorum_state_loop(
            IF w.rs[RsList[i]].alive THEN ipvs_cmd_rs(w, cmd, RsList[i]) ELSE w,
            cmd, i + 1)

perform_quorum_state(w, add) ==
    perform_quorum_state_loop(
        w, IF add THEN "LVS_CMD_ADD_DEST" ELSE "LVS_CMD_DEL_DEST", 1)

\* threshold = vs->quorum + (vs->quorum_state_up ? -1 : 1) * vs->hysteresis,
\* computed in unsigned int and stored in a long
quorum_threshold(v, bits) ==
    UnsignedToLong(ToUnsigned(v.quorum + (IF v.quorum_state_up THEN -1 ELSE 1)
                                          * v.hysteresis), bits)

\* a quorum gained only above the threshold
gained_quorum_above(w, bits) ==
    /\ ~w.vs.quorum_state_up
    /\ WideLess(quorum_threshold(w.vs, bits), ToLong(weigh_live_realservers(w)))

gained_quorum(w, bits) ==
    /\ ~w.vs.quorum_state_up
    /\ ~WideLess(ToLong(weigh_live_realservers(w)), quorum_threshold(w.vs, bits))

\* a quorum lost already at the threshold itself
lost_quorum_at_threshold(w, init, bits) ==
    \/ /\ w.vs.quorum_state_up
       /\ ~WideLess(quorum_threshold(w.vs, bits),
                    ToLong(weigh_live_realservers(w)))
    \/ /\ init
       /\ ~w.vs.quorum_state_up
       /\ w.vs.has_s_svr
       /\ ~w.s_svr.alive

\* a quorum that is lost only from up, also at the start
lost_quorum_from_up(w, init, bits) ==
    /\ w.vs.quorum_state_up
    /\ \/ weigh_live_realservers(w) = 0
       \/ WideLess(ToLong(weigh_live_realservers(w)),
                   quorum_threshold(w.vs, bits))

lost_quorum(w, init, bits) ==
    \/ /\ w.vs.quorum_state_up
       /\ \/ weigh_live_realservers(w) = 0
          \/ WideLess(ToLong(weigh_live_realservers(w)),
                      quorum_threshold(w.vs, bits))
    \/ /\ init
       /\ ~w.vs.quorum_state_up
       /\ w.vs.has_s_svr
       /\ ~w.s_svr.alive

\* a removal that leaves the sorry server flagged alive
sorry_server_removed_alive(w) == ipvs_cmd_s_svr(w, "LVS_CMD_DEL_DEST")

\* ipvs_cmd(LVS_CMD_DEL_DEST, vs, vs->s_svr); vs->s_svr->alive = false
sorry_server_removed(w) ==
    [ipvs_cmd_s_svr(w, "LVS_CMD_DEL_DEST") EXCEPT !.s_svr.alive = FALSE]

\* a loss of quorum that removes the alive real servers first
sorry_server_takes_over_late(w) ==
    [ipvs_cmd_s_svr(perform_quorum_state(w, FALSE), "LVS_CMD_ADD_DEST")
       EXCEPT !.s_svr.alive = TRUE]

\* the sorry server is added and flagged alive, then the alive real servers
\* are removed
sorry_server_takes_over(w) ==
    perform_quorum_state(
        [ipvs_cmd_s_svr(w, "LVS_CMD_ADD_DEST") EXCEPT !.s_svr.alive = TRUE],
        FALSE)

update_quorum_state(w0, init, bits) ==
    LET w == [w0 EXCEPT !.evaluated = TRUE, !.init = init]
    IN  IF gained_quorum(w, bits)
        THEN LET w1 == [w EXCEPT !.vs.quorum_state_up = TRUE]
                 w2 == IF w1.vs.has_s_svr /\ w1.s_svr.alive
                       THEN sorry_server_removed(perform_quorum_state(w1, TRUE))
                       ELSE w1
             IN  do_vs_notifies(w2, FALSE)
        ELSE IF lost_quorum(w, init, bits)
        THEN LET w1 == [w EXCEPT !.vs.quorum_state_up = FALSE]
                 w2 == IF w1.vs.has_s_svr /\ ~w1.s_svr.alive
                       THEN sorry_server_takes_over(w1)
                       ELSE w1
             IN  do_vs_notifies(w2, FALSE)
        ELSE w

(***************************************************************************)
(* the alive-ratio watchdog: vs_rs_aratio_state                            *)
(***************************************************************************)
rs_alive_ratio(v) == CDiv(v.rs_alive_count * 100, Len(RsList))

\* a test that looks at the virtual server alone
all_vs_rs_aratio_reach_lower_limit_self(w) == w.vs.flag_reach_lower_limit

\* the loop over check_data->vs: a virtual server whose flag is set is
\* skipped; one without the flag that compares equal in an address ends the
\* loop with 0. The virtual server itself matches its own address; of the
\* others (peers) the flag and the result of the address comparison are kept
all_vs_rs_aratio_reach_lower_limit(w) ==
    /\ w.vs.flag_reach_lower_limit
    /\ \A p \in w.vs.peers : p.flag \/ ~p.shares

\* the timer list of the scheduler (master): vs.timers counts the timers
\* queued for the virtual server, vs.rs_upper_limit_thread is the handle
thread_add_timer(w) ==
    [w EXCEPT !.vs.rs_upper_limit_thread = TRUE, !.vs.timers = @ + 1]

thread_cancel(w) ==
    [w EXCEPT !.vs.rs_upper_limit_thread = FALSE, !.vs.timers = @ - 1]

\* the scheduler takes a timer off its list before it runs the callback
thread_fetch(w) == [w EXCEPT !.vs.timers = @ - 1]

\* the watchdog arming a timer whether or not one is pending
vs_rs_aratio_state_rearmed(w, alive) ==
    IF alive
    THEN LET w1 == [w EXCEPT !.vs.rs_alive_count = @ + 1]
         IN  IF /\ rs_alive_ratio(w1.vs) >= w1.vs.rs_aratio_upper_limit
                /\ w1.vs.flag_reach_lower_limit
             THEN thread_add_timer(w1)
             ELSE w1
    ELSE LET w1 == [w EXCEPT !.vs.rs_alive_count = @ - 1]
             w2 == IF rs_alive_ratio(w1.vs) <= w1.vs.rs_aratio_lower_limit
                   THEN LET w1f == [w1 EXCEPT !.vs.flag_reach_lower_limit = TRUE]
                        IN  IF all_vs_rs_aratio_reach_lower_limit(w1f)
                            THEN rs_aratio_action(w1f, "lower")
                            ELSE w1f
                   ELSE w1
         IN  IF /\ rs_alive_ratio(w2.vs) < w2.vs.rs_aratio_upper_limit
                /\ w2.vs.rs_upper_limit_thread
             THEN thread_cancel(w2)
             ELSE w2

vs_rs_aratio_state(w, alive) ==
    IF alive
    THEN LET w1 == [w EXCEPT !.vs.rs_alive_count = @ + 1]
         IN  IF /\ rs_alive_ratio(w1.vs) >= w1.vs.rs_aratio_upper_limit
                /\ w1.vs.flag_reach_lower_limit
                /\ ~w1.vs.rs_upper_limit_thread
             THEN thread_add_timer(w1)
             ELSE w1
    ELSE LET w1 == [w EXCEPT !.vs.rs_alive_count = @ - 1]
             w2 == IF rs_alive_ratio(w1.vs) <= w1.vs.rs_aratio_lower_limit
                   THEN LET w1f == [w1 EXCEPT !.vs.flag_reach_lower_limit = TRUE]
                        IN  IF all_vs_rs_aratio_reach_lower_limit(w1f)
                            THEN rs_aratio_action(w1f, "lower")
                            ELSE w1f
                   ELSE w1
         IN  IF /\ rs_alive_ratio(w2.vs) < w2.vs.rs_aratio_upper_limit
                /\ w2.vs.rs_upper_limit_thread
             THEN thread_cancel(w2)
             ELSE w2

\* a callback that leaves the flag as it is
rs_aratio_reach_upper_limit_keeps_flag(w) ==
    rs_aratio_action([w EXCEPT !.vs.rs_upper_limit_thread = FALSE], "upper")

\* the timer callback armed by vs_rs_aratio_state
rs_aratio_reach_upper_limit(w) ==
    LET w1 == [w EXCEPT !.vs.rs_upper_limit_thread = FALSE]
    IN  IF rs_alive_ratio(w1.vs) >= w1.vs.rs_aratio_upper_limit
        THEN rs_aratio_action([w1 EXCEPT !.vs.flag_reach_lower_limit = FALSE],
                              "upper")
        ELSE w1

(***************************************************************************)
(* perform_svr_state, update_svr_wgt, update_svr_checker_state             *)
(***************************************************************************)
\* the plane is changed only with quorum or without an active sorry server
plane_follows_rs(w) ==
    w.vs.quorum_state_up \/ ~w.vs.has_s_svr \/ ~w.s_svr.alive

\* the ipvs_cmd of perform_svr_state returned an error
ipvs_cmd_failed(w) == [w EXCEPT !.plane_failed = TRUE]

\* a failed ipvs_cmd that is not looked at: the transition is carried out
perform_svr_state_unchecked(w, alive, k, plane_ok, bits) ==
    LET r == CheckerRs(k)
    IN  IF w.rs[r].alive = alive THEN [w |-> w, ret |-> TRUE]
        ELSE LET w0 == IF plane_follows_rs(w) /\ ~plane_ok
                       THEN ipvs_cmd_failed(w) ELSE w
                 w2 == [w0 EXCEPT !.rs[r].alive = alive]
                 w3 == do_rs_notifies(w2, r)
                 w4 == vs_rs_aratio_state(w3, alive)
             IN  [w |-> update_quorum_state(w4, FALSE, bits), ret |-> TRUE]

\* plane_ok: whether the ipvs_cmd of this call succeeds
perform_svr_state(w, alive, k, plane_ok, bits) ==
    LET r == CheckerRs(k)
    IN  IF w.rs[r].alive = alive THEN [w |-> w, ret |-> TRUE]
        ELSE IF plane_follows_rs(w) /\ ~plane_ok
        THEN [w |-> ipvs_cmd_failed(w), ret |-> FALSE]
        ELSE LET w1 == IF plane_follows_rs(w)
                       THEN ipvs_cmd_rs(w, IF alive THEN "LVS_CMD_ADD_DEST"
                                                    ELSE "LVS_CMD_DEL_DEST", r)
                       ELSE w
                 w2 == [w1 EXCEPT !.rs[r].alive = alive]
                 w3 == do_rs_notifies(w2, r)
                 w4 == vs_rs_aratio_state(w3, alive)
             IN  [w |-> update_quorum_state(w4, FALSE, bits), ret |-> TRUE]

update_svr_wgt(w, weight, r, update_quorum, bits) ==
    IF weight = w.rs[r].weight THEN w
    ELSE LET w1 == [w EXCEPT !.rs[r].weight = weight]
             w2 == IF w1.rs[r].set /\ w1.rs[r].alive /\ plane_follows_rs(w1)
                   THEN ipvs_cmd_rs(w1, "LVS_CMD_EDIT_DEST", r)
                   ELSE w1
         IN  IF update_quorum THEN update_quorum_state(w2, FALSE, bits) ELSE w2

\* what `qlast` keeps of a handler that ended with the objects w
Handled(op, w) == [op |-> op, evaluated |-> w.evaluated, init |-> w.init,
                   cmds |-> w.cmds, plane_failed |-> w.plane_failed]

\* a checker state that is not counted in num_failed_checkers
set_checker_state_uncounted(ck, servers, k, up) ==
    [checker |-> [ck EXCEPT ![k].is_up = up], rs |-> servers]

set_checker_state(ck, servers, k, up) ==
    IF ck[k].is_up = up THEN [checker |-> ck, rs |-> servers]
    ELSE [checker |-> [ck EXCEPT ![k].is_up = up],
          rs |-> [servers EXCEPT ![CheckerRs(k)].num_failed_checkers =
                    IF ~up THEN @ + 1 ELSE IF @ # 0 THEN @ - 1 ELSE @]]

update_svr_checker_state(alive, k, plane_ok) ==
    /\ phase = "running"
    /\ IF checker[k].is_up = alive
       THEN /\ checker' = [checker EXCEPT ![k].has_run = TRUE]
            /\ fifo' = IF ~checker[k].has_run /\ (checker[k].alpha \/ ~alive)
                       THEN do_rs_notifies(World, CheckerRs(k)).fifo
                       ELSE <<>>
            /\ qlast' = Handled("update_svr_checker_state", World)
            /\ UNCHANGED <<LONG_BIT, vs, rs, s_svr, phase>>
       ELSE LET nfc == rs[CheckerRs(k)].num_failed_checkers
                p == IF (alive /\ nfc <= 1) \/ (~alive /\ nfc = 0)
                     THEN perform_svr_state(World, alive, k, plane_ok, LONG_BIT)
                     ELSE [w |-> World, ret |-> TRUE]
                s == IF p.ret
                     THEN set_checker_state(checker, p.w.rs, k, alive)
                     ELSE [checker |-> checker, rs |-> p.w.rs]
            IN  /\ checker' = [s.checker EXCEPT ![k].has_run = TRUE]
                /\ rs' = s.rs
                /\ vs' = p.w.vs
                /\ s_svr' = p.w.s_svr
                /\ fifo' = p.w.fifo
                /\ qlast' = Handled("update_svr_checker_state", p.w)
                /\ UNCHANGED <<LONG_BIT, phase>>

(***************************************************************************)
(* start and stop: init_service_rs, init_service_vs, clear_service_rs,     *)
(* clear_service_vs                                                        *)
(***************************************************************************)
\* the loop of init_service_rs from entry i of vs->rs on; a reload keeps the
\* configured weight of a server (iweight == pweight)
RECURSIVE init_service_rs(_, _)
init_service_rs(w, i) ==
    IF i > Len(RsList) THEN w
    ELSE LET r == RsList[i]
             svr == w.rs[r]
         IN  IF svr.reloaded THEN init_service_rs(w, i + 1)
             ELSE IF \/ svr.num_failed_checkers = 0 /\ ~svr.alive
                     \/ svr.inhibit /\ ~svr.set
             THEN LET w1 == ipvs_cmd_rs(w, "LVS_CMD_ADD_DEST", r)
                      w2 == IF svr.num_failed_checkers = 0
                            THEN LET w1a == [w1 EXCEPT !.rs[r].alive = TRUE]
                                 IN  IF w.vs.rs_init_notifies
                                     THEN do_rs_notifies(w1a, r) ELSE w1a
                            ELSE w1
                  IN  init_service_rs(w2, i + 1)
             ELSE init_service_rs(w, i + 1)

\* the virtual server has no local address group and no blacklist group
init_service_vs(w, bits) ==
    LET w1 == [w EXCEPT !.vs.alive = TRUE]
        w2 == init_service_rs(w1, 1)
        w3 == update_quorum_state(w2, TRUE, bits)
    IN  IF w3.vs.has_s_svr /\ w3.s_svr.inhibit /\ ~w3.s_svr.set
        THEN ipvs_cmd_s_svr(w3, "LVS_CMD_ADD_DEST")
        ELSE w3

\* the server is removed from the plane even with inhibit_on_failure set:
\* inhibit is cleared for the call and restored after it
force_del_dest(svr) ==
    [ipvs_cmd("LVS_CMD_DEL_DEST", [svr EXCEPT !.inhibit = FALSE])
       EXCEPT !.inhibit = svr.inhibit]

\* the loop of clear_service_rs over the entries of vs->rs from i on
RECURSIVE clear_service_rs_loop(_, _, _)
clear_service_rs_loop(w, i, stopping) ==
    IF i > Len(RsList) THEN w
    ELSE LET r == RsList[i]
         IN  IF ~w.rs[r].set THEN clear_service_rs_loop(w, i + 1, stopping)
             ELSE LET w1 == ipvs_talk([w EXCEPT !.rs[r] = force_del_dest(@)],
                                      "LVS_CMD_DEL_DEST", r)
                  IN  IF ~w1.rs[r].alive
                      THEN clear_service_rs_loop(w1, i + 1, stopping)
                      ELSE LET w2 == [w1 EXCEPT !.rs[r].alive = FALSE]
                           IN  IF ~w2.vs.omega /\ stopping
                               THEN clear_service_rs_loop(
                                       check_snmp_rs_trap(w2, r), i + 1, stopping)
                               ELSE clear_service_rs_loop(
                                       smtp_alert_rs(do_rs_notifies(w2, r), r),
                                       i + 1, stopping)

\* long threshold = vs->quorum - vs->hysteresis
clear_threshold(v, bits) ==
    UnsignedToLong(ToUnsigned(v.quorum - v.hysteresis), bits)

\* the end of clear_service_rs, after the loop over the list l
clear_service_rs_quorum(w1, stopping, bits) ==
    IF \/ stopping
       \/ /\ w1.vs.quorum_state_up
          /\ \/ weigh_live_realservers(w1) = 0
             \/ WideLess(ToLong(weigh_live_realservers(w1)),
                         clear_threshold(w1.vs, bits))
    THEN do_vs_notifies([w1 EXCEPT !.vs.quorum_state_up = FALSE], stopping)
    ELSE w1

\* clear_service_rs(vs, vs->rs, stopping)
clear_service_rs(w, stopping, bits) ==
    clear_service_rs_quorum(clear_service_rs_loop(w, 1, stopping), stopping, bits)

\* a teardown that removes the virtual server before its destinations
clear_service_vs_first(w, stopping, lvs_flush_onstop, bits) ==
    LET w0 == ipvs_talk(w, "LVS_CMD_DEL", VsId)
        w1 == IF lvs_flush_onstop = "LVS_NO_FLUSH"
              THEN clear_service_rs(
                     IF w0.vs.has_s_svr /\ w0.s_svr.set
                     THEN ipvs_talk(
                            [w0 EXCEPT !.s_svr = [force_del_dest(@) EXCEPT
                                                    !.alive = FALSE]],
                            "LVS_CMD_DEL_DEST", SorryId)
                     ELSE w0, stopping, bits)
              ELSE IF w0.vs.has_s_svr /\ w0.s_svr.set
              THEN [w0 EXCEPT !.s_svr.alive = FALSE]
              ELSE w0
    IN  [w1 EXCEPT !.vs.alive = FALSE]

clear_service_vs(w, stopping, lvs_flush_onstop, bits) ==
    LET w1 == IF lvs_flush_onstop = "LVS_NO_FLUSH"
              THEN clear_service_rs(
                     IF w.vs.has_s_svr /\ w.s_svr.set
                     THEN ipvs_talk(
                            [w EXCEPT !.s_svr = [force_del_dest(@) EXCEPT
                                                   !.alive = FALSE]],
                            "LVS_CMD_DEL_DEST", SorryId)
                     ELSE w, stopping, bits)
              ELSE IF w.vs.has_s_svr /\ w.s_svr.set
              THEN [w EXCEPT !.s_svr.alive = FALSE]
              ELSE w
    IN  [ipvs_talk(w1, "LVS_CMD_DEL", VsId) EXCEPT !.vs.alive = FALSE]

(***************************************************************************)
(* reload: migrate_checkers, clear_diff_rs, clear_diff_s_srv,              *)
(* clear_diff_services, for a virtual server and real servers that exist   *)
(* in the old and in the new configuration                                 *)
(***************************************************************************)
\* the checkers whose configuration a reload may change
ReloadCheckers == {"ck1"}

RsChecker(r) == CHOOSE k \in Checkers : CheckerRs(k) = r

\* checker->retry as configured
Retry == 3

NewChecker(alpha) == [is_up |-> ~alpha, has_run |-> FALSE, alpha |-> alpha,
                      retry_it |-> 0]

\* a checker as the parser queues it at a reload, before check_new_rs_state
\* looks at the real servers that are new: up, whatever its alpha mode
ParsedChecker(alpha) == [NewChecker(alpha) EXCEPT !.is_up = TRUE]

\* what a new configuration says of each checker: its alpha mode, and
\* whether it compares equal to the old checker of the real server
\* (old_c->compare == new_c->compare && new_c->compare(old_c, new_c))
NewCheckerConfigs(old_ck) ==
    {f \in [Checkers -> [alpha : BOOLEAN, same : BOOLEAN]] :
        \A k \in Checkers \ ReloadCheckers :
            f[k].same /\ f[k].alpha = old_ck[k].alpha}

\* migrate_checkers(vs, old_rs, new_rs, old_checkers_queue) for the real
\* server of checker k, in the four parts of its body; ck are the new
\* checkers, old_ck the old ones, s the pair of the new checkers and the
\* real servers.
\* a new checker that compares equal takes over is_up and has_run
migrate_checker_state(ck, servers, old_ck, k, same) ==
    LET s1 == IF same /\ old_ck[k].has_run /\ old_ck[k].is_up # ck[k].is_up
              THEN set_checker_state(ck, servers, k, old_ck[k].is_up)
              ELSE [checker |-> ck, rs |-> servers]
    IN  [checker |-> IF same
                     THEN [s1.checker EXCEPT ![k].has_run = old_ck[k].has_run,
                                             ![k].retry_it = old_ck[k].retry_it]
                     ELSE s1.checker,
         rs |-> s1.rs]

\* find out how many checkers are really failed
migrate_count_failed(s, k) ==
    [s EXCEPT !.rs[CheckerRs(k)].num_failed_checkers =
                IF s.checker[k].has_run /\ ~s.checker[k].is_up THEN 1 ELSE 0]

\* a migration that leaves retry_it as copied
migrate_one_failure_none(s, k) == s

\* one failure is enough: new_c->retry_it = new_c->retry
migrate_one_failure(s, k) == [s EXCEPT !.checker[k].retry_it = Retry]

\* if a checker has failed, new alpha checkers are down until they have run
migrate_alpha_down(s, k) ==
    IF /\ \/ s.rs[CheckerRs(k)].num_failed_checkers # 0
          \/ ~s.rs[CheckerRs(k)].alive /\ ~s.checker[k].has_run
       /\ ~s.checker[k].has_run
    THEN migrate_one_failure(
            IF s.checker[k].alpha
            THEN set_checker_state(s.checker, s.rs, k, FALSE)
            ELSE s, k)
    ELSE s

\* a migration that brings every server up that is down
migrate_rs_state_up(w2, ck, k, plane_ok, bits) ==
    IF ~w2.rs[CheckerRs(k)].alive
    THEN [w |-> perform_svr_state(w2, TRUE, k, plane_ok, bits).w,
          checker |-> ck]
    ELSE [w |-> w2, checker |-> ck]

\* if there are no failed checkers, the RS needs to be up; w2 holds the
\* real servers as counted
migrate_rs_state(w2, ck, k, plane_ok, bits) ==
    IF /\ w2.rs[CheckerRs(k)].num_failed_checkers = 0
       /\ ~w2.rs[CheckerRs(k)].alive
    THEN [w |-> perform_svr_state(w2, TRUE, k, plane_ok, bits).w,
          checker |-> ck]
    ELSE IF /\ w2.rs[CheckerRs(k)].num_failed_checkers # 0
            /\ w2.rs[CheckerRs(k)].set # w2.rs[CheckerRs(k)].inhibit
    THEN [w |-> ipvs_cmd_rs(w2, IF w2.rs[CheckerRs(k)].inhibit
                                THEN "LVS_CMD_ADD_DEST"
                                ELSE "LVS_CMD_DEL_DEST", CheckerRs(k)),
          checker |-> ck]
    ELSE [w |-> w2, checker |-> ck]

migrate_counted(w, s, k, plane_ok, bits) ==
    migrate_rs_state([w EXCEPT !.rs = s.rs], s.checker, k, plane_ok, bits)

migrate_checkers(w, ck, old_ck, k, same, plane_ok, bits) ==
    migrate_counted(
        w,
        migrate_alpha_down(
            migrate_count_failed(
                migrate_checker_state(ck, w.rs, old_ck, k, same), k), k),
        k, plane_ok, bits)

\* the loop of clear_diff_rs over old_vs->rs from entry i on: every old
\* server is found in new_vs->rs; d holds the new objects and checkers
RECURSIVE clear_diff_rs_loop(_, _, _, _, _, _)
clear_diff_rs_loop(i, d, old, cfg, plane_ok, bits) ==
    IF i > Len(RsList) THEN d
    ELSE clear_diff_rs_loop(
            i + 1,
            migrate_checkers(
                [d.w EXCEPT !.rs[RsList[i]].alive = old.rs[RsList[i]].alive,
                            !.rs[RsList[i]].set = old.rs[RsList[i]].set,
                            !.rs[RsList[i]].weight = old.rs[RsList[i]].weight,
                            !.rs[RsList[i]].reloaded = TRUE],
                d.checker, old.checker, RsChecker(RsList[i]),
                cfg[RsChecker(RsList[i])].same, plane_ok, bits),
            old, cfg, plane_ok, bits)

\* rs_to_remove is empty, so that clear_service_rs(old_vs, rs_to_remove,
\* false) only weighs the old virtual server
clear_diff_rs_weigh(d, old, bits) ==
    [d EXCEPT !.w.fifo =
        clear_service_rs_quorum(
            [vs |-> old.vs, rs |-> old.rs, s_svr |-> old.s_svr,
             fifo |-> @, cmds |-> <<>>, plane_failed |-> FALSE,
             evaluated |-> FALSE,
             init |-> FALSE],
            FALSE, bits).fifo]

clear_diff_rs(w, ck, old, cfg, plane_ok, bits) ==
    clear_diff_rs_weigh(
        clear_diff_rs_loop(1, [w |-> w, checker |-> ck], old, cfg,
                           plane_ok, bits),
        old, bits)

\* clear_diff_s_srv(old_vs, new_vs->s_svr): a sorry server kept by the new
\* configuration takes over the old one's state; one that is dropped is
\* removed from the plane with the old objects
clear_diff_s_srv(w, old) ==
    IF old.vs.has_s_svr /\ w.vs.has_s_svr
    THEN [w EXCEPT !.s_svr.alive = old.s_svr.alive,
                   !.s_svr.set = old.s_svr.set,
                   !.s_svr.weight = old.s_svr.weight,
                   !.s_svr.reloaded = TRUE]
    ELSE IF /\ old.vs.has_s_svr
            /\ old.s_svr.alive \/ (old.s_svr.inhibit /\ old.s_svr.set)
    THEN ipvs_talk(w, "LVS_CMD_DEL_DEST", SorryId)
    ELSE w

(***************************************************************************)
(* The state machines                                                      *)
(***************************************************************************)
vars == <<lvars, qvars>>

EmptySlice == [laddr_list |-> <<>>, laddr_curr |-> NULL, num_laddrs |-> 0]

NewConn == [laddr |-> NoAddr, lport |-> 0, out_daddr |-> NoAddr,
            out_dport |-> 0, local |-> NULL]

NewSvc(proto, sched) ==
    [proto |-> proto, scheduler |-> sched,
     laddr_list |-> <<>>, laddr_curr |-> NULL, num_laddrs |-> 0,
     pre_list |-> [cid \in Lcores |-> EmptySlice]]

\* a service with an empty laddr pool and no connection bound
LaddrInit ==
    /\ SA_POOL_MODE \in {"LPORT", "LADDR"}
    /\ \E proto \in {"TCP", "ICMP"}, sched \in {"rr", "wlc"} :
          svc = NewSvc(proto, sched)
    /\ laddr_mem = [l \in Slots |-> FreedCell]
    /\ conn = [c \in Conns |-> NewConn]
    /\ sa_pool = {}
    /\ crashed = FALSE
    /\ last = NoCall

NewVs(qh, sorry, up) ==
    [quorum |-> qh[1], hysteresis |-> qh[2], quorum_state_up |-> up,
     has_s_svr |-> sorry, omega |-> FALSE, alive |-> FALSE,
     rs_alive_count |-> 0, flag_reach_lower_limit |-> FALSE,
     rs_upper_limit_thread |-> FALSE, timers |-> 0,
     rs_aratio_upper_limit |-> 75, rs_aratio_lower_limit |-> 25,
     rs_aratio_action |-> TRUE, rs_init_notifies |-> FALSE, peers |-> {}]

\* a server as configured: an alpha checker counts as failed until it ran
NewRs(alpha) ==
    [weight |-> 1, alive |-> FALSE, set |-> FALSE, inhibit |-> FALSE,
     num_failed_checkers |-> IF alpha THEN 1 ELSE 0, reloaded |-> FALSE]


NoHandler == [op |-> "none", evaluated |-> FALSE, init |-> FALSE,
              cmds |-> <<>>, plane_failed |-> FALSE]

\* the configuration as parsed, before init_services
QuorumInit ==
    /\ LONG_BIT \in {32, 64}
    /\ \E qh \in QuorumConfigs, sorry \in BOOLEAN, up \in BOOLEAN :
          vs = NewVs(qh, sorry, up)
    /\ \E alpha \in BOOLEAN :
          /\ rs = [r \in RServers |-> NewRs(alpha)]
          /\ checker = [k \in Checkers |-> NewChecker(alpha)]
    /\ s_svr = NewRs(FALSE)
    /\ fifo = <<>>
    /\ qlast = NoHandler
    /\ phase = "config"

\* the health checker is not looked at
QuorumIdle ==
    /\ LONG_BIT = 64
    /\ vs = NewVs(<<3, 1>>, FALSE, FALSE)
    /\ rs = [r \in RServers |-> NewRs(FALSE)]
    /\ checker = [k \in Checkers |-> NewChecker(FALSE)]
    /\ s_svr = NewRs(FALSE)
    /\ fifo = <<>>
    /\ qlast = NoHandler
    /\ phase = "config"

\* the laddr allocator is not looked at
LaddrIdle ==
    /\ SA_POOL_MODE = "LPORT"
    /\ svc = NewSvc("TCP", "rr")
    /\ laddr_mem = [l \in Slots |-> FreedCell]
    /\ conn = [c \in Conns |-> NewConn]
    /\ sa_pool = {}
    /\ crashed = FALSE
    /\ last = NoCall

Init == LaddrInit /\ QuorumIdle

Bind == (\E c \in Conns : dp_vs_laddr_bind(c, TRUE)) /\ UNCHANGED qvars

BindQ == (\E c \in Conns : dp_vs_laddr_bind(c, FALSE)) /\ UNCHANGED qvars

UnbindQ == (\E c \in Conns : dp_vs_laddr_unbind(c, FALSE)) /\ UNCHANGED qvars

AddQ ==
    /\ \E a \in LAddrs, ifname \in IfNames : dp_vs_laddr_add(a, ifname, FALSE)
    /\ UNCHANGED qvars

Del == (\E a \in LAddrs : dp_vs_laddr_del(a, TRUE)) /\ UNCHANGED qvars

FlushQ == dp_vs_laddr_flush(FALSE) /\ UNCHANGED qvars

\* control plane and data plane, observing delete
Next == AddQ \/ Del \/ FlushQ \/ BindQ \/ UnbindQ

Spec == Init /\ [][Next]_vars

\* the data plane on a pool the control plane only adds to, observing bind
NextBind == AddQ \/ Bind \/ UnbindQ

SpecBind == Init /\ [][NextBind]_vars

Add ==
    /\ \E a \in LAddrs, ifname \in IfNames : dp_vs_laddr_add(a, ifname, TRUE)
    /\ UNCHANGED qvars

DelQ == (\E a \in LAddrs : dp_vs_laddr_del(a, FALSE)) /\ UNCHANGED qvars

\* control plane and data plane, observing add
NextAdd == Add \/ DelQ \/ FlushQ \/ BindQ \/ UnbindQ

SpecAdd == Init /\ [][NextAdd]_vars

Unbind == (\E c \in Conns : dp_vs_laddr_unbind(c, TRUE)) /\ UNCHANGED qvars

\* the data plane on a pool the control plane only adds to, observing unbind
NextUnbind == AddQ \/ BindQ \/ Unbind

SpecUnbind == Init /\ [][NextUnbind]_vars

\* a handler ran and left the objects w
Leaves(op, w) ==
    /\ vs' = w.vs
    /\ rs' = w.rs
    /\ s_svr' = w.s_svr
    /\ fifo' = w.fifo
    /\ qlast' = Handled(op, w)

InitServices ==
    /\ phase \in {"config", "reloaded"}
    /\ Leaves("init_services", init_service_vs(World, LONG_BIT))
    /\ phase' = "running"
    /\ UNCHANGED <<LONG_BIT, checker, lvars>>

UpdateSvrCheckerState ==
    /\ \E k \in Checkers, alive \in BOOLEAN, plane_ok \in BOOLEAN :
          update_svr_checker_state(alive, k, plane_ok)
    /\ UNCHANGED lvars

UpdateSvrWgt ==
    /\ phase = "running"
    /\ \E weight \in Weights :
          Leaves("update_svr_wgt",
                 update_svr_wgt(World, weight, DynRs, TRUE, LONG_BIT))
    /\ UNCHANGED <<LONG_BIT, checker, phase, lvars>>

AratioTimer ==
    /\ phase = "running"
    /\ vs.timers > 0
    /\ Leaves("rs_aratio_reach_upper_limit",
              rs_aratio_reach_upper_limit(thread_fetch(World)))
    /\ UNCHANGED <<LONG_BIT, checker, phase, lvars>>

ClearServices ==
    /\ phase = "running"
    /\ \E lvs_flush_onstop \in {"LVS_NO_FLUSH", "LVS_FLUSH_FULL"} :
          Leaves("clear_services",
                 clear_service_vs(World, TRUE, lvs_flush_onstop, LONG_BIT))
    /\ phase' = "stopped"
    /\ UNCHANGED <<LONG_BIT, checker, lvars>>

\* a reload whose new configuration has no virtual server equal to the old
\* one (vs_exist returns NULL): clear_diff_services clears the old one
ReloadWithoutVs ==
    /\ phase = "running"
    /\ \E lvs_flush_onstop \in {"LVS_NO_FLUSH", "LVS_FLUSH_FULL"} :
          Leaves("clear_diff_services",
                 clear_service_vs(World, FALSE, lvs_flush_onstop, LONG_BIT))
    /\ phase' = "removed"
    /\ UNCHANGED <<LONG_BIT, checker, lvars>>

NextQuorum ==
    InitServices \/ UpdateSvrCheckerState \/ UpdateSvrWgt \/ AratioTimer
    \/ ClearServices

InitQuorum == LaddrIdle /\ QuorumInit

SpecQuorum == InitQuorum /\ [][NextQuorum]_vars

\* a service in LPORT mode with a pool of n laddrs, added in the order of
\* their cells, of which those from the third on have no lport left on
\* lcore 1 for the destination: the port pools are shared with the other
\* services on the same <lip, iface>, which hold the reservations
TrialPoolSizes == {2, dp_vs_laddr_max_trails, TrialLaddrs}

TrialAddr(l) == [af |-> "AF_INET", addr |-> l]

InitTrials ==
    /\ QuorumIdle
    /\ SA_POOL_MODE = "LPORT"
    /\ \E n \in TrialPoolSizes :
          /\ svc = [NewSvc("TCP", "wlc") EXCEPT
                      !.laddr_list = [l \in 1..n |-> l], !.num_laddrs = n]
          /\ laddr_mem = [l \in Slots |-> IF l <= n THEN NewCell(TrialAddr(l))
                                                    ELSE FreedCell]
          /\ sa_pool = {SaTuple(1, TrialAddr(l), p, ConnDest("c1")) :
                          l \in 3..n, p \in PoolPorts(TrialAddr(1), 1)}
    /\ conn = [c \in Conns |-> NewConn]
    /\ crashed = FALSE
    /\ last = NoCall

\* the data plane on that pool, observing bind
NextTrials == Bind \/ UnbindQ

SpecTrials == InitTrials /\ [][NextTrials]_vars

\* clear_diff_services(old_checkers_queue) for the one virtual server, which
\* the new configuration keeps with its quorum and its real servers; cfg are
\* the new checkers, sorry whether the new configuration has a sorry server
clear_diff_services(cfg, sorry, plane_ok, bits) ==
    LET old == [vs |-> [vs EXCEPT !.omega = TRUE], rs |-> rs, s_svr |-> s_svr,
                checker |-> checker]
        new_vs == [NewVs(<<vs.quorum, vs.hysteresis>>, sorry,
                         vs.quorum_state_up) EXCEPT !.alive = vs.alive]
        w0 == [vs |-> new_vs,
               rs |-> [r \in RServers |-> NewRs(FALSE)],
               s_svr |-> NewRs(FALSE), fifo |-> <<>>, cmds |-> <<>>,
               plane_failed |-> FALSE,
               evaluated |-> FALSE, init |-> FALSE]
    IN  [clear_diff_rs(w0, [k \in Checkers |-> ParsedChecker(cfg[k].alpha)],
                       old, cfg, plane_ok, bits)
           EXCEPT !.w = clear_diff_s_srv(@, old)]

\* the differ left the objects and the checkers d
Reloaded(d) ==
    /\ Leaves("clear_diff_services", d.w)
    /\ checker' = d.checker

\* a reload: the differ runs on the parsed new configuration, and
\* init_services follows before any checker runs
ReloadTo(cfg) ==
    /\ phase = "running"
    /\ \E sorry \in BOOLEAN, plane_ok \in BOOLEAN :
          Reloaded(clear_diff_services(cfg, sorry, plane_ok, LONG_BIT))
    /\ phase' = "reloaded"
    /\ UNCHANGED <<LONG_BIT, lvars>>

Reload == \E cfg \in NewCheckerConfigs(checker) : ReloadTo(cfg)

\* the checkers that report between reloads
ReportingCheckers == {"ck1", "ck2"}

CheckerReports ==
    /\ \E k \in ReportingCheckers, alive \in BOOLEAN, plane_ok \in BOOLEAN :
          update_svr_checker_state(alive, k, plane_ok)
    /\ UNCHANGED lvars

NextReload == InitServices \/ CheckerReports \/ Reload

\* the configurations reloaded: Q = 3, H = 1 on a 64-bit build
InitReload ==
    /\ LaddrIdle
    /\ LONG_BIT = 64
    /\ \E sorry \in BOOLEAN, up \in BOOLEAN : vs = NewVs(<<3, 1>>, sorry, up)
    /\ \E alpha \in BOOLEAN :
          /\ rs = [r \in RServers |-> NewRs(alpha)]
          /\ checker = [k \in Checkers |-> NewChecker(alpha)]
    /\ s_svr = NewRs(FALSE)
    /\ fifo = <<>>
    /\ qlast = NoHandler
    /\ phase = "config"

SpecReload == InitReload /\ [][NextReload]_vars

(***************************************************************************)
(* Properties of the laddr allocator                                       *)
(***************************************************************************)
LiveCells == {l \in Slots : laddr_mem[l].live}

\* a connection is live bound when conn->local is set
Bound(c) == conn[c].local # NULL

BoundConns == {c \in Conns : Bound(c)}

ResourceExhausted(l) == l.op = "bind" /\ l.ret = "EDPVS_RESOURCE"

\* C1: after any sequence of bind and unbind calls, failed binds included,
\* every laddr record has refcnt >= conn_counts >= 0.
C1_RefcntCoversConnCounts ==
    \A l \in LiveCells :
        /\ laddr_mem[l].refcnt >= laddr_mem[l].conn_counts
        /\ laddr_mem[l].conn_counts >= 0

\* C2: a bind that returns resource-exhausted is all-or-nothing: the
\* connection's laddr, lport, reply-tuple destination and local are unchanged,
\* no port stays reserved for the call, and every laddr's refcnt and
\* conn_counts are what they were before the call.
C2_FailedBindAllOrNothing ==
    [][ResourceExhausted(last') =>
          /\ conn' = conn
          /\ sa_pool' = sa_pool
          /\ \A l \in Slots :
                /\ laddr_mem'[l].refcnt = laddr_mem[l].refcnt
                /\ laddr_mem'[l].conn_counts = laddr_mem[l].conn_counts]_vars

\* the cursor of one list is null or a record linked in that list
CursorLinked(sl) ==
    \/ sl.laddr_curr = NULL
    \/ InList(sl.laddr_list, sl.laddr_curr)

\* C3: after any sequence of add, delete, flush and select, the round-robin
\* cursor is null or points at a record linked in the list, never at a
\* destroyed record or the sentinel; in LPORT mode and for every per-lcore
\* slot in LADDR mode.
C3_CursorNullOrLinked ==
    /\ CursorLinked(PortSlice(svc))
    /\ \A cid \in Lcores : CursorLinked(svc.pre_list[cid])

\* the record of address a, wherever it is linked (NULL when absent)
PoolSlices == IF SA_POOL_MODE = "LPORT" THEN {PortSlice(svc)}
              ELSE {svc.pre_list[cid] : cid \in lcore_mask}

Present(a) == \E sl \in PoolSlices : SliceHas(sl, laddr_mem, a)

RecordOf(a) ==
    SliceFind(CHOOSE sl \in PoolSlices : SliceHas(sl, laddr_mem, a), laddr_mem, a)

Deleted(l) == l.op = "del"

\* C4: delete of a record present in the pool returns ok exactly when the
\* record's refcnt is 0, and then the record is unlinked and destroyed;
\* otherwise it returns busy and every list, count and cursor is unchanged
\* (the lists of all lcores in LADDR mode).
C4_DeleteOkIffUnreferenced ==
    [][Deleted(last') /\ Present(last'.arg) =>
          LET rec == RecordOf(last'.arg)
          IN  IF laddr_mem[rec].refcnt = 0
              THEN /\ last'.ret = "EDPVS_OK"
                   /\ ~laddr_mem'[rec].live
                   /\ ~InList(svc'.laddr_list, rec)
                   /\ \A cid \in Lcores : ~InList(svc'.pre_list[cid].laddr_list, rec)
              ELSE /\ last'.ret = "EDPVS_BUSY"
                   /\ svc' = svc
                   /\ laddr_mem' = laddr_mem]_vars

C4_BusyDeleteSeen ==
    /\ Deleted(last)
    /\ last.ret = "EDPVS_BUSY"
    /\ SA_POOL_MODE = "LADDR"
    /\ Present(last.arg)
    /\ laddr_mem[RecordOf(last.arg)].refcnt > 0

\* the connections bound to address a
BoundTo(a) == {c \in BoundConns : conn[c].laddr = a}

\* C5: delete(A) returns busy while some connection is bound to A, and ok
\* once every connection that was bound to A has been unbound, whatever
\* successful and failed binds preceded it.
C5_DeleteBusyIffBound ==
    [][Deleted(last') /\ Present(last'.arg) =>
          (last'.ret = "EDPVS_BUSY" <=> BoundTo(last'.arg) # {})]_vars

\* the 5-tuple of a bound connection (the protocol is the service's)
ConnTuple(c) ==
    [laddr |-> conn[c].laddr, lport |-> conn[c].lport,
     daddr |-> ConnDest(c).daddr, dport |-> ConnDest(c).dport,
     proto |-> svc.proto]

\* the reservation a bound connection holds in the port pool
ConnReservation(c) ==
    SaTuple(ConnLcore(c), conn[c].laddr, conn[c].lport, ConnDest(c))

\* C6: no two live bound connections share (laddr, lport, daddr, dport,
\* proto); a reservation is held for as long as its connection is bound and
\* is released by that connection's unbind: the reserved tuples are exactly
\* those of the bound connections.
C6_TuplesUnique ==
    /\ \A c, d \in BoundConns : c # d => ConnTuple(c) # ConnTuple(d)
    /\ sa_pool = {ConnReservation(c) : c \in BoundConns}

C6_TwoBoundOnOneLaddr ==
    /\ \E c, d \in BoundConns : c # d /\ conn[c].laddr = conn[d].laddr
    /\ \E c \in Conns : ~Bound(c) /\ conn[c].lport # 0

RECURSIVE SumConnCounts(_, _)
SumConnCounts(m, cells) ==
    IF cells = {} THEN 0
    ELSE LET l == CHOOSE x \in cells : TRUE
         IN  m[l].conn_counts + SumConnCounts(m, cells \ {l})

\* C7: the sum of conn_counts over all laddr records equals the number of
\* live bound non-template connections.
C7_ConnCountsBalance ==
    SumConnCounts(laddr_mem, LiveCells) = Cardinality(BoundConns)

C7_TwoBoundAfterFailedBind ==
    /\ ResourceExhausted(last)
    /\ Cardinality(BoundConns) = 2
    /\ \A c \in BoundConns : ~ConnTemplate(c)

(***************************************************************************)
(* Properties of the quorum arbiter                                        *)
(***************************************************************************)
\* W, Q and H of the virtual server
AliveWeight == SumAliveWeight(rs, RServers)

Quorum == vs.quorum

Hysteresis == vs.hysteresis

\* the step ran update_quorum_state, which saw the alive weight W'
QuorumEvaluated == qlast'.evaluated

VsNotified(state) ==
    \E i \in 1..Len(fifo) : fifo[i] = [kind |-> "VS", id |-> "vs", state |-> state]

\* C8 (as stated): while Q-H <= W <= Q+H, bounds inclusive, an evaluation
\* of update_quorum_state never changes quorum_state_up.
C8_NoChangeInInclusiveBand ==
    [][QuorumEvaluated /\ Quorum - Hysteresis <= AliveWeight'
                       /\ AliveWeight' <= Quorum + Hysteresis
         => vs'.quorum_state_up = vs.quorum_state_up]_vars

\* C8 (amended): with H <= Q, while W > 0 and Q-H <= W < Q+H (the upper
\* bound excluded), an evaluation of update_quorum_state never changes
\* quorum_state_up, whichever state it is in.
C8_NoChangeInsideBand ==
    [][QuorumEvaluated /\ Hysteresis <= Quorum
                       /\ AliveWeight' > 0
                       /\ Quorum - Hysteresis <= AliveWeight'
                       /\ AliveWeight' < Quorum + Hysteresis
         => vs'.quorum_state_up = vs.quorum_state_up]_vars

C8_HeldUpAtLowerBound ==
    /\ qlast.evaluated
    /\ qlast.op = "update_svr_checker_state"
    /\ vs.quorum_state_up
    /\ Hysteresis > 0
    /\ AliveWeight = Quorum - Hysteresis
    /\ \E r \in RServers : ~rs[r].alive

\* C9: update_quorum_state moves an up virtual server down exactly when
\* W == 0 or W < Q - H, and a down one up exactly when W >= Q + H, Q - H
\* being the mathematical difference also when H > Q.
C9_TransitionsAtMathThresholds ==
    [][QuorumEvaluated =>
          /\ vs.quorum_state_up =>
                (~vs'.quorum_state_up <=>
                    (AliveWeight' = 0 \/ AliveWeight' < Quorum - Hysteresis))
          /\ ~vs.quorum_state_up =>
                (vs'.quorum_state_up <=>
                    AliveWeight' >= Quorum + Hysteresis)]_vars

\* the virtual server of the example: Q = 3, H = 1, four servers of weight 1
ExampleVs ==
    /\ Quorum = 3
    /\ Hysteresis = 1
    /\ \A r \in RServers : rs[r].weight = 1

\* a checker reported and the alive weight went from `from` to `to`
WeightStep(from, to) ==
    /\ ExampleVs
    /\ ExampleVs'
    /\ qlast'.op = "update_svr_checker_state"
    /\ AliveWeight = from
    /\ AliveWeight' = to

\* C10 (as stated): Q=3, H=1, four servers of weight 1, quorum up: a first
\* server down (W=3) keeps it up; a second down (W=2) takes it down with a
\* VS DOWN notification; the second back (W=3) keeps it down; the first back
\* (W=4) takes it up.
C10_ExampleAsStated ==
    [][/\ WeightStep(4, 3) /\ vs.quorum_state_up => vs'.quorum_state_up
       /\ WeightStep(3, 2) /\ vs.quorum_state_up =>
             ~vs'.quorum_state_up /\ VsNotified("DOWN")'
       /\ WeightStep(2, 3) /\ ~vs.quorum_state_up => ~vs'.quorum_state_up
       /\ WeightStep(3, 4) /\ ~vs.quorum_state_up => vs'.quorum_state_up]_vars

\* C10 (amended): Q=3, H=1, four servers of weight 1, quorum up: a first
\* server down (W=3) and a second down (W=2 = Q-H) keep it up; a third down
\* (W=1) takes it down with a VS DOWN notification; the third back (W=2) and
\* the second back (W=3) keep it down; the first back (W=4) takes it up with
\* a VS UP notification.
C10_ExampleAsComputed ==
    [][/\ WeightStep(4, 3) /\ vs.quorum_state_up => vs'.quorum_state_up
       /\ WeightStep(3, 2) /\ vs.quorum_state_up => vs'.quorum_state_up
       /\ WeightStep(2, 1) /\ vs.quorum_state_up =>
             ~vs'.quorum_state_up /\ VsNotified("DOWN")'
       /\ WeightStep(1, 2) /\ ~vs.quorum_state_up => ~vs'.quorum_state_up
       /\ WeightStep(2, 3) /\ ~vs.quorum_state_up => ~vs'.quorum_state_up
       /\ WeightStep(3, 4) /\ ~vs.quorum_state_up =>
             vs'.quorum_state_up /\ VsNotified("UP")']_vars

C10_DownAfterThirdFailure ==
    /\ ExampleVs
    /\ qlast.op = "update_svr_checker_state"
    /\ AliveWeight = 1
    /\ ~vs.quorum_state_up
    /\ VsNotified("DOWN")

\* the step evaluated the quorum and moved the virtual server down / up
QuorumWentDown ==
    QuorumEvaluated /\ vs.quorum_state_up /\ ~vs'.quorum_state_up

QuorumWentUp ==
    QuorumEvaluated /\ ~vs.quorum_state_up /\ vs'.quorum_state_up

\* the sorry server is in the plane and flagged alive
SorryInstalled == s_svr.alive /\ s_svr.set

\* no alive real server is left in the plane / all of them are in it
AliveRsRemoved == \A r \in RServers : rs[r].alive => ~rs[r].set

AliveRsInstalled == \A r \in RServers : rs[r].alive => rs[r].set

\* C11 (as stated): on every Up->Down transition the sorry server is
\* installed if one is configured, every alive real server is removed from
\* the plane whether or not a sorry server is configured, and a VS DOWN
\* notification is emitted.
C11_DownEffectsAsStated ==
    [][QuorumWentDown =>
          /\ vs.has_s_svr => SorryInstalled'
          /\ AliveRsRemoved'
          /\ VsNotified("DOWN")']_vars

\* C11 (amended): on every Up->Down transition a VS DOWN notification is
\* emitted; with a sorry server configured and not installed the sorry
\* server is installed and every alive real server is removed from the plane,
\* its alive flag kept; without a sorry server nothing is removed: every
\* alive real server is still in the plane when the transition completes.
C11_DownEffectsAsComputed ==
    [][QuorumWentDown =>
          /\ VsNotified("DOWN")'
          /\ vs.has_s_svr /\ ~s_svr.alive => SorryInstalled' /\ AliveRsRemoved'
          /\ ~vs.has_s_svr => AliveRsInstalled']_vars

C11_SorryTookOver ==
    /\ qlast.op = "update_svr_checker_state"
    /\ qlast.evaluated
    /\ ~vs.quorum_state_up
    /\ VsNotified("DOWN")
    /\ vs.has_s_svr
    /\ SorryInstalled
    /\ \E r \in RServers : rs[r].alive /\ ~rs[r].set

InitWithSorryPending ==
    QuorumEvaluated /\ qlast'.init /\ vs.has_s_svr /\ ~s_svr.alive

\* C13 (as stated): update_quorum_state with init = true on a virtual server
\* with a sorry server configured and not installed takes the Down path
\* (sorry server installed, quorum_state_up false) for every W and every
\* prior quorum state.
C13_InitForcesDown ==
    [][InitWithSorryPending =>
          ~vs'.quorum_state_up /\ SorryInstalled']_vars

\* C13 (amended): update_quorum_state with init = true on a virtual server
\* with a sorry server configured and not installed: from quorum down it
\* takes the Up path when W >= Q + H (the sorry server is not installed) and
\* the Down path otherwise (sorry server installed, quorum_state_up false);
\* from quorum up the sorry server is installed exactly when the quorum is
\* lost.
C13_InitDownUnlessQuorum ==
    [][InitWithSorryPending =>
          IF ~vs.quorum_state_up
          THEN IF AliveWeight' >= Quorum + Hysteresis
               THEN vs'.quorum_state_up /\ ~s_svr'.alive /\ ~s_svr'.set
               ELSE ~vs'.quorum_state_up /\ SorryInstalled'
          ELSE /\ s_svr'.alive <=> ~vs'.quorum_state_up
               /\ s_svr'.set <=> ~vs'.quorum_state_up]_vars

C13_BornCovered ==
    /\ qlast.op = "init_services"
    /\ qlast.init
    /\ vs.has_s_svr
    /\ ~vs.quorum_state_up
    /\ SorryInstalled
    /\ AliveWeight = 0
    /\ VsNotified("DOWN")

\* C14: after any sequence of checker results, plane failures and reload
\* checker migrations, every real server that is alive has no failed checker.
C14_AliveHasNoFailedChecker ==
    \A r \in RServers : rs[r].alive => rs[r].num_failed_checkers = 0

\* a reload migrated the checkers of a server that is alive and of one that
\* is down with its checker failed
C14_MigratedAliveAndFailed ==
    /\ qlast.op = "clear_diff_services"
    /\ \E r \in RServers : rs[r].alive /\ checker[RsChecker(r)].has_run
    /\ \E r \in RServers : ~rs[r].alive /\ rs[r].num_failed_checkers = 1

\* the new configuration equal to the old one
SameConfig == [k \in Checkers |-> [alpha |-> checker[k].alpha, same |-> TRUE]]

\* a reload whose new configuration equals the old one
ReloadSame ==
    /\ phase = "running"
    /\ \E plane_ok \in BOOLEAN :
          Reloaded(clear_diff_services(SameConfig, vs.has_s_svr, plane_ok,
                                       LONG_BIT))
    /\ phase' = "reloaded"

\* no server entered or left the forwarding plane
PlaneKept ==
    /\ \A r \in RServers : rs'[r].set = rs[r].set
    /\ s_svr'.set = s_svr.set

RsKept == \A r \in RServers : /\ rs'[r].alive = rs[r].alive
                               /\ rs'[r].weight = rs[r].weight

IsUpKept == \A k \in Checkers : checker'[k].is_up = checker[k].is_up

RetryItKept == \A k \in Checkers : checker'[k].retry_it = checker[k].retry_it

\* a probe of checker ck1 failed and is tried again: the checker counts
\* retry_it up to retry before it reports the server down
CheckerRetries ==
    /\ phase = "running"
    /\ checker["ck1"].retry_it < Retry
    /\ checker' = [checker EXCEPT !["ck1"].retry_it = @ + 1]
    /\ qlast' = [NoHandler EXCEPT !.op = "retry"]
    /\ UNCHANGED <<LONG_BIT, vs, rs, s_svr, fifo, phase, lvars>>

\* checker ck1 reports
CheckerReportsOne ==
    /\ \E alive \in BOOLEAN, plane_ok \in BOOLEAN :
          update_svr_checker_state(alive, "ck1", plane_ok)
    /\ UNCHANGED lvars

NextMigrate == InitServices \/ CheckerReportsOne \/ CheckerRetries \/ Reload

\* the configurations migrated: no sorry server, quorum down at the start
InitMigrate ==
    /\ LaddrIdle
    /\ LONG_BIT = 64
    /\ vs = NewVs(<<3, 1>>, FALSE, FALSE)
    /\ \E alpha \in BOOLEAN :
          /\ rs = [r \in RServers |-> NewRs(alpha)]
          /\ checker = [k \in Checkers |-> NewChecker(alpha)]
    /\ s_svr = NewRs(FALSE)
    /\ fifo = <<>>
    /\ qlast = NoHandler
    /\ phase = "config"

SpecMigrate == InitMigrate /\ [][NextMigrate]_vars

\* a checker that has not run yet, of a server that is down
Unrun(k) == ~checker[k].has_run /\ ~rs[CheckerRs(k)].alive

\* C24: a reload whose new configuration equals the old one issues no plane
\* operation and leaves alive and weight of every real server and is_up and
\* retry_it of every checker as they were, whatever the state before it.
C24_ReloadSameChangesNothing ==
    [][ReloadSame => PlaneKept /\ RsKept /\ IsUpKept /\ RetryItKept]_vars

\* the checkers of real server r that are down
DownCheckers(r) ==
    {k \in DOMAIN checker : CheckerRs(k) = r /\ ~checker[k].is_up}

\* the new checker k ends the migration with is_up and has_run of the old one
StateCopied(k) ==
    /\ checker'[k].is_up = checker[k].is_up
    /\ checker'[k].has_run = checker[k].has_run

\* the reload found real server r alive with its checker up on its second
\* retry, and left all of that and the forwarding plane as it was
RetryingKept(r) ==
    /\ rs[r].alive
    /\ checker[RsChecker(r)].is_up
    /\ checker[RsChecker(r)].retry_it = 2
    => /\ rs'[r].alive
       /\ rs'[r].set = rs[r].set
       /\ checker'[RsChecker(r)].is_up
       /\ checker'[RsChecker(r)].retry_it = 2

InitMulti ==
    /\ LaddrIdle
    /\ LONG_BIT = 64
    /\ \E sorry \in BOOLEAN, up \in BOOLEAN : vs = NewVs(<<3, 1>>, sorry, up)
    /\ \E alpha \in BOOLEAN :
          /\ rs = [r \in RServers |->
                     IF r = CheckerRs(SecondChecker) /\ alpha
                     THEN [NewRs(alpha) EXCEPT !.num_failed_checkers = 2]
                     ELSE NewRs(alpha)]
          /\ checker = [k \in Checkers \cup {SecondChecker} |->
                          NewChecker(alpha)]
    /\ s_svr = NewRs(FALSE)
    /\ fifo = <<>>
    /\ qlast = NoHandler
    /\ phase = "config"

\* the checkers of rs1 and the checker of rs2 report
MultiReports ==
    /\ \E k \in {"ck1", SecondChecker, "ck2"}, alive \in BOOLEAN,
          plane_ok \in BOOLEAN :
          update_svr_checker_state(alive, k, plane_ok)
    /\ UNCHANGED lvars

NextMulti == InitServices \/ MultiReports

SpecMulti == InitMulti /\ [][NextMulti]_vars

\* the number of checkers of rs1 that are down
FailedOfFirst == Cardinality(DownCheckers(CheckerRs(SecondChecker)))

FirstRs == rs[CheckerRs(SecondChecker)]

\* C30: a real server with several checkers goes down with the first of its
\* checkers that fails and comes up only with the recovery of the last
\* failed one; while two or more of its checkers are failed, the recovery of
\* one does not make it alive.
C30_FirstFailureLastRecovery ==
    [][qlast'.op = "update_svr_checker_state" =>
          /\ (FirstRs.alive /\ ~FirstRs'.alive)
               => FailedOfFirst = 0 /\ FailedOfFirst' = 1
          /\ (FailedOfFirst = 0 /\ FailedOfFirst' = 1) => ~FirstRs'.alive
          /\ (~FirstRs.alive /\ FirstRs'.alive)
               => FailedOfFirst = 1 /\ FailedOfFirst' = 0
          /\ (FailedOfFirst = 1 /\ FailedOfFirst' = 0) => FirstRs'.alive
          /\ FailedOfFirst >= 2 => ~FirstRs'.alive]_vars

\* one of two failed checkers has recovered, and the server is still down
C30_OneOfTwoRecovered ==
    /\ qlast.op = "update_svr_checker_state"
    /\ FailedOfFirst = 1
    /\ checker["ck1"].has_run /\ checker[SecondChecker].has_run
    /\ checker["ck1"].is_up
    /\ ~FirstRs.alive
    /\ FirstRs.num_failed_checkers = 1

(***************************************************************************)
(* Properties of the trials of one bind call                               *)
(***************************************************************************)
BindCalled(l) == l.op = "bind"

\* num_laddrs of the list the call of connection c selects from
NumLaddrsOf(c) ==
    IF SA_POOL_MODE = "LPORT" THEN svc.num_laddrs
    ELSE svc.pre_list[ConnLcore(c)].num_laddrs

Min(a, b) == IF a <= b THEN a ELSE b

\* the j-th laddr after the cursor, stepping by one
CursorOrder(j) ==
    CHOOSE l \in laddr_walk(svc.laddr_list, svc.laddr_curr, j) : TRUE

\* no lport is left for connection c on the laddr in cell l
Exhausted(c, l) ==
    sa_fetch(sa_pool, ConnLcore(c), CellAddr(laddr_mem, l), ConnDest(c)) = {}

\* connection c gets as far as the trials
Selects(c) == ConnHasDest(c) /\ ~ConnTemplate(c)

LaddrsOf(c) ==
    LET list == IF SA_POOL_MODE = "LPORT" THEN svc.laddr_list
                ELSE svc.pre_list[ConnLcore(c)].laddr_list
    IN  {list[i] : i \in 1..Len(list)}

\* C16: the laddrs tried within one bind call are pairwise distinct, for
\* every scheduler, rr and wrr included; so with at most 16 laddrs in the
\* pool a bind returns resource-exhausted only if the port pool of every
\* laddr is exhausted.
C16_TrialsDistinct ==
    [][BindCalled(last') =>
          /\ \A i, j \in 1..Len(last'.tried) :
                i # j => last'.tried[i] # last'.tried[j]
          /\ ( /\ last'.ret = "EDPVS_RESOURCE"
               /\ NumLaddrsOf(last'.conn) <= dp_vs_laddr_max_trails )
             => \A l \in LaddrsOf(last'.conn) : Exhausted(last'.conn, l)]_vars

(***************************************************************************)
(* Properties of unbind                                                    *)
(***************************************************************************)
UnbindCalled(l) == l.op = "unbind"

\* C17: unbind is idempotent: a call that returns leaves conn->local NULL,
\* and a call on a connection whose local is NULL, or on a template, returns
\* ok and changes nothing: no port released, no refcnt or conn_counts
\* changed, the connection and the service as before.
C17_UnbindIdempotent ==
    [][UnbindCalled(last') =>
          /\ last'.ret = "EDPVS_OK" => conn'[last'.conn].local = NULL
          /\ (ConnTemplate(last'.conn) \/ conn[last'.conn].local = NULL)
             => /\ last'.ret = "EDPVS_OK"
                /\ UNCHANGED <<SA_POOL_MODE, svc, laddr_mem, conn, sa_pool,
                               crashed>>]_vars

\* an unbind that released nothing, on a connection that was bound once,
\* while another connection holds its laddr and lport
C17_SecondUnbindSeen ==
    /\ UnbindCalled(last)
    /\ last.tried = <<>>
    /\ ~ConnTemplate(last.conn)
    /\ conn[last.conn].laddr # NoAddr
    /\ conn[last.conn].local = NULL
    /\ \E c \in Conns : conn[c].local # NULL

(***************************************************************************)
(* Properties of the result of bind                                        *)
(***************************************************************************)
\* C18: for every input connection and service, bind returns only ok or
\* resource-exhausted to its caller; no other error kind is surfaced.
C18_OnlyOkOrResource ==
    [][BindCalled(last') =>
          last'.ret \in {"EDPVS_OK", "EDPVS_RESOURCE"}]_vars

\* C18, as the code has it: a connection without destination gets invalid,
\* a service that is neither TCP nor UDP gets not-supported, and every
\* other call returns only ok or resource-exhausted, whatever the trials
\* ran into.
C18_ResultKinds ==
    [][BindCalled(last') =>
          /\ last'.conn = "nodest" => last'.ret = "EDPVS_INVAL"
          /\ (last'.conn # "nodest" /\ svc.proto \notin {"TCP", "UDP"})
             => last'.ret = "EDPVS_NOTSUPP"
          /\ (last'.conn # "nodest" /\ svc.proto \in {"TCP", "UDP"})
             => last'.ret \in {"EDPVS_OK", "EDPVS_RESOURCE"}]_vars

\* trials that found no lport on any laddr tried, surfaced as
\* resource-exhausted
C18_TrialFailureSurfaced ==
    /\ ResourceExhausted(last)
    /\ svc.proto = "TCP"
    /\ last.tried # <<>>

(***************************************************************************)
(* Properties of the laddr records of the service                          *)
(***************************************************************************)
AddCalled(l) == l.op = "add"

\* the cells linked in the lists of the service
LinkedCells ==
    UNION {{sl.laddr_list[i] : i \in 1..Len(sl.laddr_list)} : sl \in PoolSlices}

\* no cell is linked twice in a list, and no two linked cells hold the same
\* (af, addr)
UniqueLaddrs ==
    /\ \A sl \in PoolSlices : \A i, j \in 1..Len(sl.laddr_list) :
          i # j => sl.laddr_list[i] # sl.laddr_list[j]
    /\ \A k, l \in LinkedCells :
          k # l => CellAddr(laddr_mem, k) # CellAddr(laddr_mem, l)

\* the address is that of a linked record
Linked(a) == \E l \in LinkedCells : CellAddr(laddr_mem, l) = a

\* the call finds memory for the record and the interface of that name
AddReachesList(l) ==
    /\ Cardinality({k \in Slots : laddr_mem[k].live}) < HeapCells
    /\ netif_port_get_by_name(l.ifname) # "NULL"

\* C19: after any sequence of add/delete/flush no two laddr records of the
\* service have equal (af, addr); an add of an (af, addr) already present
\* returns exist and leaves the list, the count and the cursor unchanged.
C19_AddPresentIsExist ==
    /\ []UniqueLaddrs
    /\ [][(AddCalled(last') /\ Linked(last'.arg)) =>
             /\ last'.ret = "EDPVS_EXIST"
             /\ UNCHANGED svc]_vars

\* C19, as the code has it: the records stay unique; an add of an (af, addr)
\* already present leaves the list, the count and the cursor unchanged, and
\* returns exist when the record could be allocated and the interface name
\* resolves, no-memory when the allocation fails, and not-exist when the
\* name does not resolve.
C19_AddPresentChangesNothing ==
    /\ []UniqueLaddrs
    /\ [][(AddCalled(last') /\ Linked(last'.arg)) =>
             /\ UNCHANGED <<svc, laddr_mem>>
             /\ last'.ret \in {"EDPVS_EXIST", "EDPVS_NOMEM", "EDPVS_NOTEXIST"}
             /\ AddReachesList(last') <=> last'.ret = "EDPVS_EXIST"]_vars

\* a duplicate was rejected on a pool whose cursor stands on a record
C19_DuplicateRejected ==
    /\ AddCalled(last)
    /\ last.ret = "EDPVS_EXIST"
    /\ Linked(last.arg)
    /\ svc.laddr_curr # NULL \/ \E cid \in Lcores : svc.pre_list[cid].laddr_curr # NULL

\* the control plane alone, on the addresses of dpdk0, observing add
AddAny ==
    /\ \E a \in LAddrs \cup {UnpooledAddr}, ifname \in IfNames :
          dp_vs_laddr_add(a, ifname, TRUE)
    /\ UNCHANGED qvars

NextPool == AddAny \/ DelQ \/ FlushQ

SpecPool == Init /\ [][NextPool]_vars

\* the enabled lcores that have a port pool for the address
PoolLcores(a) == {cid \in lcore_mask : sa_pools(a, cid)}

\* the cell is linked in the list, once
LinkedOnce(sl, l) ==
    Cardinality({i \in 1..Len(sl.laddr_list) : sl.laddr_list[i] = l}) = 1

\* C26: in LADDR mode an add succeeds only if a port pool for the address
\* exists on at least one enabled lcore; after it the new record is linked,
\* once, in the list of every enabled lcore with a pool and in no other, and
\* num_laddrs of exactly those lists is one more.
C26_LaddrAddNeedsPool ==
    [][(AddCalled(last') /\ SA_POOL_MODE = "LADDR"
            /\ last'.ret = "EDPVS_OK") =>
          /\ PoolLcores(last'.arg) # {}
          /\ \A cid \in Lcores :
                IF cid \in PoolLcores(last'.arg)
                THEN /\ LinkedOnce(svc'.pre_list[cid], rte_malloc(laddr_mem))
                     /\ svc'.pre_list[cid].num_laddrs =
                           svc.pre_list[cid].num_laddrs + 1
                ELSE svc'.pre_list[cid] = svc.pre_list[cid]]_vars

Flush == dp_vs_laddr_flush(TRUE) /\ UNCHANGED qvars

\* the data plane on a pool the control plane adds to and flushes, observing
\* flush
NextFlush == AddQ \/ BindQ \/ UnbindQ \/ Flush

SpecFlush == Init /\ [][NextFlush]_vars

FlushCalled(l) == l.op = "flush"

\* the lists of the pool: the one of the service in LPORT mode, those of the
\* lcores in LADDR mode
PoolIndex == IF SA_POOL_MODE = "LPORT" THEN {0} ELSE Lcores

SliceOf(s, i) == IF SA_POOL_MODE = "LPORT" THEN PortSlice(s) ELSE s.pre_list[i]

CellsOf(sl) == {sl.laddr_list[i] : i \in 1..Len(sl.laddr_list)}

\* the records of the list that no selection and no connection refers to
Unreferenced(sl) == {l \in CellsOf(sl) : laddr_mem[l].refcnt = 0}

\* the flush took the unreferenced records out of the list sl, which is
\* now new, and left the others
Flushed(sl, new) ==
    /\ new.laddr_list = SelectSeq(sl.laddr_list,
                                  LAMBDA l : l \notin Unreferenced(sl))
    /\ new.num_laddrs = sl.num_laddrs - Cardinality(Unreferenced(sl))
    /\ \A l \in Unreferenced(sl) : ~laddr_mem'[l].live
    /\ \A l \in CellsOf(sl) \ Unreferenced(sl) : laddr_mem'[l] = laddr_mem[l]

\* C27: flush removes from every list exactly the records whose refcnt is 0
\* and keeps the others, decrements num_laddrs by the number removed, and
\* returns busy iff at least one record remained, ok otherwise.
C27_FlushRemovesUnreferenced ==
    [][FlushCalled(last') =>
          /\ \A i \in PoolIndex : Flushed(SliceOf(svc, i), SliceOf(svc', i))
          /\ last'.ret = IF \E i \in PoolIndex :
                               SliceOf(svc', i).laddr_list # <<>>
                         THEN "EDPVS_BUSY" ELSE "EDPVS_OK"]_vars

\* a flush returned busy: it freed the record added first and left a later
\* one that a connection holds
C27_FlushedAroundBusy ==
    /\ FlushCalled(last)
    /\ last.ret = "EDPVS_BUSY"
    /\ \E l \in Slots, k \in LinkedCells :
          /\ l < k
          /\ ~laddr_mem[l].live
          /\ laddr_mem[k].refcnt > 0

(***************************************************************************)
(* The test at the head of the LADDR-mode loops over the lcores            *)
(***************************************************************************)
\* the lcore ids a build of DPDK has
RTE_MAX_LCORE == 128

\* the width of lcore_mask and of 1L
MaskBits == 64

\* if (cid > 64 || !(lcore_mask & (1L << cid))) continue;
\* the outcomes for lcore cid: whether 1L << cid was evaluated, and whether
\* the body of the loop ran. A shift by the width of long or more is
\* undefined: either outcome can follow.
lcore_test(cid) ==
    IF cid > 64 THEN {[shifted |-> FALSE, body |-> FALSE]}
    ELSE IF cid >= MaskBits
    THEN {[shifted |-> TRUE, body |-> b] : b \in BOOLEAN}
    ELSE {[shifted |-> TRUE, body |-> cid \in lcore_mask]}

\* one pass of a loop `for (cid = 0; cid < RTE_MAX_LCORE; cid++)` through
\* its head; `tried` holds cid, followed by the shift count when 1L << cid
\* was evaluated
LcoreTest ==
    /\ SA_POOL_MODE = "LADDR"
    /\ \E cid \in 0..(RTE_MAX_LCORE - 1) : \E o \in lcore_test(cid) :
          last' = [NoCall EXCEPT
                     !.op = "lcore_test",
                     !.tried = IF o.shifted THEN <<cid, cid>> ELSE <<cid>>,
                     !.ret = IF o.body THEN "body" ELSE "continue"]
    /\ UNCHANGED <<SA_POOL_MODE, svc, laddr_mem, conn, sa_pool, crashed, qvars>>

SpecLcores == Init /\ [][LcoreTest]_vars

LcoreTested(l) == l.op = "lcore_test"

\* C28: in the LADDR-mode loops every lcore id >= 64 is skipped, an id
\* w < 64 is processed iff bit w of the mask is set, and no id is tested
\* with a shift of 64 bits or more.
C28_LcoreMaskTest ==
    LcoreTested(last) =>
      /\ last.tried[1] >= 64 => last.ret = "continue"
      /\ last.tried[1] < 64 => (last.ret = "body" <=> last.tried[1] \in lcore_mask)
      /\ Len(last.tried) = 2 => last.tried[2] < 64

(***************************************************************************)
(* Bind in LADDR mode on a list with a laddr that has no pool here         *)
(***************************************************************************)
\* the references a record is left with before the binds stop
MaxSkips == 4

SkipPoolSizes == {2, 3}

\* a service in LADDR mode whose list on lcore 1 holds n laddrs, of which
\* the one in cell p lost its port pools after it was added: the address
\* was configured on the interface again, without pools
InitSkip ==
    /\ QuorumIdle
    /\ SA_POOL_MODE = "LADDR"
    /\ \E n \in SkipPoolSizes : \E p \in 1..n :
          /\ svc = [NewSvc("TCP", "wlc") EXCEPT
                      !.pre_list[1] = [laddr_list |-> [l \in 1..n |-> l],
                                       laddr_curr |-> NULL,
                                       num_laddrs |-> n]]
          /\ laddr_mem = [l \in Slots |->
                            IF l = p THEN NewCell(UnpooledAddr)
                            ELSE IF l <= n THEN NewCell(TrialAddr(l))
                            ELSE FreedCell]
    /\ sa_pool = {}
    /\ conn = [c \in Conns |-> NewConn]
    /\ crashed = FALSE
    /\ last = NoCall

\* a bind while no record holds MaxSkips references
BindSkipping ==
    /\ \A l \in Slots : laddr_mem[l].refcnt < MaxSkips
    /\ \E c \in Conns : dp_vs_laddr_bind(c, TRUE)
    /\ UNCHANGED qvars

NextSkip == BindSkipping \/ UnbindQ

SpecSkip == InitSkip /\ [][NextSkip]_vars

\* the laddrs the call selected that have no port pool on its lcore
Skipped(l) ==
    {l.tried[i] : i \in {j \in 1..Len(l.tried) :
                            ~sa_pools(CellAddr(laddr_mem, l.tried[j]),
                                      ConnLcore(l.conn))}}

\* C29: in LADDR mode the reference select took on a laddr that has no port
\* pool on the current lcore is released before the next trial: the refcnt
\* of a skipped laddr is after the bind call what it was before.
C29_SkippedLaddrReleased ==
    [][(BindCalled(last') /\ SA_POOL_MODE = "LADDR") =>
          \A l \in Skipped(last') :
              laddr_mem'[l].refcnt = laddr_mem[l].refcnt]_vars

(***************************************************************************)
(* Fairness of the selection                                               *)
(***************************************************************************)
FairPoolSizes == {1, 2, 3}

\* a service in LPORT mode whose scheduler is not rr or wrr, with a pool of
\* n laddrs that stays as it is, every lport free and no connection bound;
\* the cursor stands anywhere, as earlier binds left it
InitFair ==
    /\ QuorumIdle
    /\ SA_POOL_MODE = "LPORT"
    /\ \E n \in FairPoolSizes : \E cur \in {NULL} \cup (1..n) :
          /\ svc = [NewSvc("TCP", "wlc") EXCEPT
                      !.laddr_list = [l \in 1..n |-> l], !.num_laddrs = n,
                      !.laddr_curr = cur]
          /\ laddr_mem = [l \in Slots |-> IF l <= n THEN NewCell(TrialAddr(l))
                                                    ELSE FreedCell]
    /\ sa_pool = {}
    /\ conn = [c \in Conns |-> NewConn]
    /\ crashed = FALSE
    /\ last = NoCall

\* a bind that finds an lport on the first laddr it selects
BindPortsFree ==
    /\ \E c \in Conns : dp_vs_laddr_bind(c, TRUE)
    /\ Len(last'.tried) <= 1
    /\ last'.ret # "EDPVS_RESOURCE"
    /\ UNCHANGED qvars

SpecFair == InitFair /\ [][BindPortsFree]_vars

\* the binds that selected a laddr since the start, and those that got cell l
BindsDone == SumConnCounts(laddr_mem, LinkedCells)

SelectedTimes(l) == laddr_mem[l].conn_counts

\* C20: in LPORT mode on a service whose scheduler is neither rr nor wrr,
\* with a fixed set of M laddrs and ports that do not run out, over any K
\* consecutive binds each laddr is selected floor(K/M) or ceil(K/M) times.
C20_SelectionFair ==
    \A l \in LinkedCells :
       /\ SelectedTimes(l) >= BindsDone \div svc.num_laddrs
       /\ SelectedTimes(l) <= (BindsDone + svc.num_laddrs - 1) \div svc.num_laddrs

\* three binds on two laddrs: the laddr under the cursor got two of them
C20_ThreeBindsOnTwo ==
    /\ svc.num_laddrs = 2
    /\ BindsDone = 3
    /\ BindCalled(last)
    /\ \E l \in LinkedCells : SelectedTimes(l) = 2 /\ svc.laddr_curr = l

(***************************************************************************)
(* Notifications at shutdown                                               *)
(***************************************************************************)
\* the configurations stopped: Q = 3, H = 1 on a 64-bit build, with and
\* without omega
InitStop ==
    /\ LaddrIdle
    /\ LONG_BIT = 64
    /\ \E sorry \in BOOLEAN, up \in BOOLEAN, omega \in BOOLEAN :
          vs = [NewVs(<<3, 1>>, sorry, up) EXCEPT !.omega = omega]
    /\ rs = [r \in RServers |-> NewRs(FALSE)]
    /\ checker = [k \in Checkers |-> NewChecker(FALSE)]
    /\ s_svr = NewRs(FALSE)
    /\ fifo = <<>>
    /\ qlast = NoHandler
    /\ phase = "config"

\* start, checker results, and the orderly stop
NextStop == InitServices \/ CheckerReports \/ ClearServices

SpecStop == InitStop /\ [][NextStop]_vars

Stopped(h) == h.op = "clear_services"

\* the log of the handler has an entry of that kind for that object
Logged(log, kind, id) ==
    \E i \in 1..Len(log) : log[i].kind = kind /\ log[i].id = id

\* the non-SNMP sinks of a real server and of the virtual server
RsSinks == {"RS", "RS_SCRIPT", "RS_SMTP"}

VsSinks == {"VS", "VS_SCRIPT", "VS_SMTP"}

\* C21: during shutdown a VS or RS with omega unset produces no script,
\* FIFO or SMTP notification, while the SNMP trap is still emitted for each
\* transition; with omega set all sinks fire.
C21_ShutdownNotifies ==
    [][Stopped(qlast') =>
          /\ ~vs.omega =>
                \A i \in 1..Len(fifo') : fifo'[i].kind \in {"VS_TRAP", "RS_TRAP"}
          /\ \A r \in RServers : (rs[r].alive /\ ~rs'[r].alive) =>
                /\ Logged(fifo', "RS_TRAP", r)
                /\ vs.omega => \A k \in RsSinks : Logged(fifo', k, r)
          /\ (vs.quorum_state_up /\ ~vs'.quorum_state_up) =>
                /\ Logged(fifo', "VS_TRAP", "vs")
                /\ vs.omega => \A k \in VsSinks : Logged(fifo', k, "vs")]_vars

\* a stop without omega that took down a real server and the quorum, with
\* the traps for both in the log
C21_QuietStopSeen ==
    /\ Stopped(qlast)
    /\ ~vs.omega
    /\ Logged(fifo, "VS_TRAP", "vs")
    /\ \E r \in RServers : Logged(fifo, "RS_TRAP", r)

(***************************************************************************)
(* The alive-ratio watchdog                                                *)
(***************************************************************************)
\* the other virtual servers of check_data->vs: whether the address
\* comparison with the virtual server matches, and whether their flag is set
PeerConfigs ==
    { {},
      {[shares |-> TRUE, flag |-> FALSE]},
      {[shares |-> TRUE, flag |-> TRUE]},
      {[shares |-> FALSE, flag |-> FALSE]},
      {[shares |-> TRUE, flag |-> TRUE], [shares |-> TRUE, flag |-> FALSE]} }

InitAratio ==
    /\ LaddrIdle
    /\ LONG_BIT = 64
    /\ \E peers \in PeerConfigs, sorry \in BOOLEAN :
          vs = [NewVs(<<3, 1>>, sorry, FALSE) EXCEPT !.peers = peers]
    /\ \E alpha \in BOOLEAN :
          /\ rs = [r \in RServers |-> NewRs(alpha)]
          /\ checker = [k \in Checkers |-> NewChecker(alpha)]
    /\ s_svr = NewRs(FALSE)
    /\ fifo = <<>>
    /\ qlast = NoHandler
    /\ phase = "config"

\* start, checker results of every real server, and the debounce timer
NextAratio == InitServices \/ UpdateSvrCheckerState \/ AratioTimer

SpecAratio == InitAratio /\ [][NextAratio]_vars

\* the operator action was run with that argument by the last handler
ActionInvoked(log, limit) ==
    \E i \in 1..Len(log) : log[i].kind = "ARATIO" /\ log[i].state = limit

TimerFired(h) == h.op = "rs_aratio_reach_upper_limit"

\* C22: "upper" is invoked only when the debounce timer fires with the alive
\* ratio still >= upper_limit, and only for a virtual server that carried
\* the reached-lower flag when the timer was scheduled (a pending timer
\* implies the flag); firing clears the flag, so that "upper" is invoked at
\* most once per setting of the flag.
C22_UpperOnlyFromTimer ==
    /\ [](vs.rs_upper_limit_thread => vs.flag_reach_lower_limit)
    /\ [][ActionInvoked(fifo', "upper") =>
             /\ TimerFired(qlast')
             /\ vs.rs_upper_limit_thread
             /\ rs_alive_ratio(vs) >= vs.rs_aratio_upper_limit
             /\ vs.flag_reach_lower_limit
             /\ ~vs'.flag_reach_lower_limit
             /\ ~vs'.rs_upper_limit_thread]_vars

C22_UpperInvoked ==
    /\ TimerFired(qlast)
    /\ ActionInvoked(fifo, "upper")
    /\ ~vs.flag_reach_lower_limit

\* no peer that shares an address lacks the flag
PeersReachedLower == \A p \in vs.peers : p.shares => p.flag

\* C23: "lower" is invoked for a virtual server only in a state where
\* r <= lower_limit for it and every virtual server sharing an address with
\* it carries the reached-lower flag; if any sharing one lacks the flag, no
\* "lower" action is invoked.
C23_LowerNeedsAllPeers ==
    [][ActionInvoked(fifo', "lower") =>
          /\ rs_alive_ratio(vs') <= vs'.rs_aratio_lower_limit
          /\ vs'.flag_reach_lower_limit
          /\ PeersReachedLower]_vars

\* "lower" was invoked with a peer that shares an address and has the flag
C23_LowerInvokedWithPeer ==
    /\ ActionInvoked(fifo, "lower")
    /\ \E p \in vs.peers : p.shares /\ p.flag
    /\ rs_alive_ratio(vs) <= vs.rs_aratio_lower_limit

\* a real server went down in the step and the ratio is below upper_limit
DroppedBelowUpper ==
    /\ vs'.rs_alive_count = vs.rs_alive_count - 1
    /\ rs_alive_ratio(vs') < vs'.rs_aratio_upper_limit

\* C31: at most one debounce timer is queued for the virtual server, and it
\* is the one the handle names; a real server going down with r below
\* upper_limit leaves no timer queued and the handle null, so that no
\* "upper" action follows a recovery that dropped below upper_limit again
\* within the tick: "upper" comes only from a queued timer that finds
\* r >= upper_limit.
C31_OneTimerCancelledOnDrop ==
    /\ [](vs.timers = IF vs.rs_upper_limit_thread THEN 1 ELSE 0)
    /\ [][DroppedBelowUpper =>
             ~vs'.rs_upper_limit_thread /\ vs'.timers = 0]_vars
    /\ [][ActionInvoked(fifo', "upper") =>
             /\ vs.timers = 1
             /\ rs_alive_ratio(vs) >= vs.rs_aratio_upper_limit]_vars

\* a recovery to upper_limit was followed by a drop: the last handler took
\* a server down from the count that had armed the timer
C31_TimerCancelled ==
    /\ vs.flag_reach_lower_limit
    /\ vs.rs_alive_count = 2
    /\ ~vs.rs_upper_limit_thread
    /\ qlast.op = "update_svr_checker_state"
    /\ \E i \in 1..Len(fifo) : fifo[i].kind = "RS" /\ fifo[i].state = "DOWN"

\* "lower" has been invoked for the virtual server and the ratio has not
\* been above lower_limit since: the flag is set only by a server going down
\* to r <= lower_limit, which invokes "lower" when the peers carry the flag,
\* and the count takes every value in between on its way back
LowerStanding ==
    /\ vs.flag_reach_lower_limit
    /\ PeersReachedLower
    /\ rs_alive_ratio(vs) <= vs.rs_aratio_lower_limit

\* the counter agrees with the real servers that are alive
AliveCounted ==
    vs.rs_alive_count = Cardinality({r \in RServers : rs[r].alive})

\* C32: "lower" is invoked on the crossing of the lower threshold: once it
\* has been invoked, a further real server going down with r still
\* <= lower_limit does not invoke it again until the ratio has been above
\* lower_limit (stated for the runs in which the counter agrees with the
\* servers that are alive).
C32_LowerOncePerCrossing ==
    [][AliveCounted /\ ActionInvoked(fifo', "lower") => ~LowerStanding]_vars

(***************************************************************************)
(* Reload of a configuration without the virtual server                    *)
(***************************************************************************)
NextRemove == InitServices \/ CheckerReports \/ ReloadWithoutVs

SpecRemove == InitReload /\ [][NextRemove]_vars

\* the places of a command in the log of a handler
Issued(log, cmd, id) ==
    {i \in 1..Len(log) : log[i].cmd = cmd /\ log[i].id = id}

VsRemoved(log) == Issued(log, "LVS_CMD_DEL", VsId)

\* the destination id is removed before the virtual server, and not after
RemovedBeforeVs(log, id) ==
    /\ Issued(log, "LVS_CMD_DEL_DEST", id) # {}
    /\ \A i \in Issued(log, "LVS_CMD_DEL_DEST", id), j \in VsRemoved(log) : i < j

\* the destinations that are in the plane
Installed ==
    {r \in RServers : rs[r].set}
    \cup (IF vs.has_s_svr /\ s_svr.set THEN {SorryId} ELSE {})

VsTornDown == phase = "running" /\ phase' = "removed"

\* the statement of C33 as it is written: every installed destination is
\* removed, and all of them before the virtual server
C33_DestsRemovedBeforeVs ==
    [][VsTornDown =>
          /\ Len(qlast'.cmds) > 0
          /\ VsRemoved(qlast'.cmds) = {Len(qlast'.cmds)}
          /\ \A id \in Installed : RemovedBeforeVs(qlast'.cmds, id)]_vars

\* C33: on reload an old virtual server without a match in the new
\* configuration is torn down with the removal of the virtual server as
\* the last command, so that no real server is removed after it; before it
\* either every installed real server and the installed sorry server are
\* removed (lvs_flush_onstop not configured) or no destination is removed
\* at all and the virtual server is removed with them still in it.
C33_VsRemovedLast ==
    [][VsTornDown =>
          /\ Len(qlast'.cmds) > 0
          /\ VsRemoved(qlast'.cmds) = {Len(qlast'.cmds)}
          /\ \/ \A id \in Installed : RemovedBeforeVs(qlast'.cmds, id)
             \/ /\ Len(qlast'.cmds) = 1
                /\ \A r \in RServers : rs'[r].set = rs[r].set]_vars

\* a virtual server was torn down with two real servers removed before it
C33_TornDownWithServers ==
    /\ phase = "removed"
    /\ Len(qlast.cmds) >= 3
    /\ VsRemoved(qlast.cmds) = {Len(qlast.cmds)}
    /\ \E r \in RServers : Issued(qlast.cmds, "LVS_CMD_DEL_DEST", r) # {}

(***************************************************************************)
(* dp_vs_laddr_bind in its two parts: the trials under svc->laddr_lock,    *)
(* and what follows rte_rwlock_write_unlock; add, del and flush take the   *)
(* lock for the whole call and so run before, between or after the parts   *)
(***************************************************************************)
\* the locals `laddr` and `sport` of a bind that has released the lock
NotBinding == [binding |-> FALSE, bind_laddr |-> NULL, bind_sport |-> 0]

Binding(laddr, sport) ==
    [binding |-> TRUE, bind_laddr |-> laddr, bind_sport |-> sport]

SetBinder(cn, b) == [cn EXCEPT !.binding = b.binding,
                               !.bind_laddr = b.bind_laddr,
                               !.bind_sport = b.bind_sport]

\* the worker of an lcore runs one call at a time
WorkerIdle(cid) == \A c \in Conns : ConnLcore(c) = cid => ~conn[c].binding

\* from entry to rte_rwlock_write_unlock, or to a return before it
dp_vs_laddr_bind_locked(c) ==
    /\ ~crashed
    /\ WorkerIdle(ConnLcore(c))
    /\ conn[c].local = NULL
    /\ last' = NoCall
    /\ IF bind_check_args(c, svc) # "EDPVS_OK" \/ ConnTemplate(c)
       THEN UNCHANGED <<SA_POOL_MODE, svc, laddr_mem, conn, sa_pool, crashed>>
       ELSE \E o \in bind_trials(0, bind_num_laddrs(svc, ConnLcore(c)), svc,
                                 laddr_mem, NULL, c, sa_pool) :
              CASE o.exit = "segv" ->
                     /\ crashed' = TRUE
                     /\ svc' = o.svc
                     /\ laddr_mem' = o.mem
                     /\ UNCHANGED <<SA_POOL_MODE, conn, sa_pool>>
                [] o.exit = "no_laddr" ->
                     /\ svc' = o.svc
                     /\ laddr_mem' = o.mem
                     /\ RefcntFloor(laddr_mem')
                     /\ UNCHANGED <<SA_POOL_MODE, conn, sa_pool, crashed>>
                [] o.exit = "loop_end" ->
                     /\ svc' = o.svc
                     /\ laddr_mem' = o.mem
                     /\ RefcntFloor(laddr_mem')
                     /\ conn' = [conn EXCEPT
                                   ![c] = SetBinder(@, Binding(o.laddr, 0))]
                     /\ UNCHANGED <<SA_POOL_MODE, sa_pool, crashed>>
                [] o.exit = "break" ->
                     \E sport \in sa_fetch(sa_pool, ConnLcore(c),
                                           CellAddr(o.mem, o.laddr), ConnDest(c)) :
                        /\ svc' = o.svc
                        /\ sa_pool' = sa_pool \cup
                              {SaTuple(ConnLcore(c), CellAddr(o.mem, o.laddr),
                                       sport, ConnDest(c))}
                        /\ laddr_mem' = o.mem
                        /\ conn' = [conn EXCEPT
                                      ![c] = SetBinder(@, Binding(o.laddr, sport))]
                        /\ UNCHANGED <<SA_POOL_MODE, crashed>>

\* from rte_rwlock_write_unlock to the return. A record that was freed in
\* between is read and written all the same: the call faults, or runs on
\* the stale cell
dp_vs_laddr_bind_unlocked(c) ==
    /\ ~crashed
    /\ conn[c].binding
    /\ LET laddr == conn[c].bind_laddr
           sport == conn[c].bind_sport
           done  == [conn EXCEPT ![c] = SetBinder(@, NotBinding)]
       IN  IF laddr = NULL
           THEN /\ conn' = done
                /\ last' = RetConn(TRUE, "bind", c, <<>>, "EDPVS_RESOURCE")
                /\ UNCHANGED <<SA_POOL_MODE, svc, laddr_mem, sa_pool, crashed>>
           ELSE IF ~laddr_mem[laddr].live
           THEN \/ /\ crashed' = TRUE
                   /\ last' = RetConn(TRUE, "bind", c, <<laddr>>, "SIGSEGV")
                   /\ UNCHANGED <<SA_POOL_MODE, svc, laddr_mem, conn, sa_pool>>
                \/ /\ conn' = IF sport = 0 THEN done
                              ELSE [done EXCEPT
                                      ![c] = bind_stamp(@, laddr_mem, laddr, sport)]
                   /\ last' = RetConn(TRUE, "bind", c, <<laddr>>,
                                      IF sport = 0 THEN "EDPVS_RESOURCE"
                                      ELSE "EDPVS_OK")
                   /\ UNCHANGED <<SA_POOL_MODE, svc, laddr_mem, sa_pool, crashed>>
           ELSE IF sport = 0
           THEN /\ laddr_mem' = bind_fail_put(laddr_mem, laddr)
                /\ RefcntFloor(laddr_mem')
                /\ conn' = done
                /\ last' = RetConn(TRUE, "bind", c, <<laddr>>, "EDPVS_RESOURCE")
                /\ UNCHANGED <<SA_POOL_MODE, svc, sa_pool, crashed>>
           ELSE /\ laddr_mem' = inc_conn_counts(laddr_mem, laddr)
                /\ conn' = [done EXCEPT
                              ![c] = bind_stamp(@, laddr_mem, laddr, sport)]
                /\ last' = RetConn(TRUE, "bind", c, <<laddr>>, "EDPVS_OK")
                /\ UNCHANGED <<SA_POOL_MODE, svc, sa_pool, crashed>>

\* the connections a worker binds in the runs checked
RaceConns == {"c1", "c2"}

BindLocked ==
    (\E c \in RaceConns : dp_vs_laddr_bind_locked(c)) /\ UNCHANGED qvars

BindUnlocked ==
    (\E c \in RaceConns : dp_vs_laddr_bind_unlocked(c)) /\ UNCHANGED qvars

\* an unbind by a worker that is not inside a bind
UnbindIdle ==
    /\ \E c \in RaceConns :
          WorkerIdle(ConnLcore(c)) /\ dp_vs_laddr_unbind(c, FALSE)
    /\ UNCHANGED qvars

InitRace ==
    /\ QuorumIdle
    /\ SA_POOL_MODE \in {"LPORT", "LADDR"}
    /\ svc = NewSvc("TCP", "rr")
    /\ laddr_mem = [l \in Slots |-> FreedCell]
    /\ conn = [c \in Conns |-> NewConn @@ NotBinding]
    /\ sa_pool = {}
    /\ crashed = FALSE
    /\ last = NoCall

NextRace == AddQ \/ DelQ \/ FlushQ \/ BindLocked \/ BindUnlocked \/ UnbindIdle

SpecRace == InitRace /\ [][NextRace]_vars

\* the binds that have left the lock and will go through their record
InFlight == {c \in Conns : conn[c].binding /\ conn[c].bind_laddr # NULL}

\* C34: under any interleaving of a bind with delete or flush on the same
\* service, a laddr record is never destroyed while the bind will still
\* dereference it: at every point of the bind outside the lock from which
\* it still reads or writes the record (the final put on failure, the
\* conn_counts increment and the stamping on success), the record is
\* allocated, which the claim derives from its refcnt being > 0 there.
C34_RecordOutlivesBind ==
    \A c \in InFlight : laddr_mem[conn[c].bind_laddr].live

(***************************************************************************)
(* The plane against quorum_state_up                                       *)
(***************************************************************************)
\* a reload whose new configuration differs from the old one only in that
\* it has no sorry server any more
ReloadDropsSorry ==
    /\ phase = "running"
    /\ vs.has_s_svr
    /\ \E plane_ok \in BOOLEAN :
          Reloaded(clear_diff_services(SameConfig, FALSE, plane_ok, LONG_BIT))
    /\ phase' = "reloaded"
    /\ UNCHANGED <<LONG_BIT, lvars>>

\* a virtual server with quorum 2, no hysteresis and a sorry server
InitDrop ==
    /\ LaddrIdle
    /\ LONG_BIT = 64
    /\ vs = NewVs(<<2, 0>>, TRUE, FALSE)
    /\ \E alpha \in BOOLEAN :
          /\ rs = [r \in RServers |-> NewRs(alpha)]
          /\ checker = [k \in Checkers |-> NewChecker(alpha)]
    /\ s_svr = NewRs(FALSE)
    /\ fifo = <<>>
    /\ qlast = NoHandler
    /\ phase = "config"

NextDrop == InitServices \/ CheckerReports \/ ReloadDropsSorry

SpecDrop == InitDrop /\ [][NextDrop]_vars

\* C35: whenever quorum_state_up is true and the sorry server is not
\* installed, every real server with alive = true is installed in the
\* forwarding plane; after any sequence of checker events and reloads,
\* a reload that drops the active sorry server from the configuration
\* included.
C35_AliveInstalledWhenUp ==
    (vs.quorum_state_up /\ ~(vs.has_s_svr /\ s_svr.set)) => AliveRsInstalled

\* C36: the sorry server is flagged alive only while quorum_state_up is
\* false: in every state reached through update_quorum_state,
\* perform_svr_state and update_svr_wgt, quorum_state_up true implies that
\* the sorry server is not alive.
C36_SorryAliveOnlyWhenDown ==
    vs.quorum_state_up => ~(vs.has_s_svr /\ s_svr.alive)

\* the quorum was gained by a weight update, which took the sorry server
\* out of the plane
C36_SorryRetiredByWeight ==
    /\ qlast.op = "update_svr_wgt"
    /\ vs.quorum_state_up
    /\ vs.has_s_svr
    /\ ~s_svr.alive
    /\ Issued(qlast.cmds, "LVS_CMD_DEL_DEST", SorryId) # {}

\* the destinations in the plane after the first n commands of a log, from
\* the set `dests`
RECURSIVE PlaneAfter(_, _, _)
PlaneAfter(dests, log, n) ==
    IF n = 0 THEN dests
    ELSE LET before == PlaneAfter(dests, log, n - 1)
         IN  IF log[n].cmd = "LVS_CMD_ADD_DEST" THEN before \cup {log[n].id}
             ELSE IF log[n].cmd = "LVS_CMD_DEL_DEST" THEN before \ {log[n].id}
             ELSE before

\* every command of the first kind on a real server that is alive comes
\* before (after) the command on the sorry server
AliveBeforeSorry(log, rs_cmd, sorry_cmd) ==
    \A r \in RServers, j \in Issued(log, sorry_cmd, SorryId) :
       \A i \in Issued(log, rs_cmd, r) : rs'[r].alive => i < j

AliveAfterSorry(log, rs_cmd, sorry_cmd) ==
    \A r \in RServers, j \in Issued(log, sorry_cmd, SorryId) :
       \A i \in Issued(log, rs_cmd, r) : rs'[r].alive => j < i

\* a transition of a running virtual server that has a sorry server and is
\* left with an alive real server
SorryTransition ==
    /\ QuorumWentDown \/ QuorumWentUp
    /\ ~qlast'.init
    /\ vs.has_s_svr
    /\ \E r \in RServers : rs'[r].alive

C38_CountMatchesAlive ==
    /\ AliveCounted
    /\ rs_alive_ratio(vs) \in 0..100

\* the VS lines the handler wrote to the FIFO
VsLines(log) == {i \in 1..Len(log) : log[i].kind = "VS"}

\* C39: update_quorum_state called with init = false emits a VS
\* notification if and only if quorum_state_up changed value in that call,
\* exactly once, reporting the new state; a checker result or a weight
\* update that does not get there emits none and changes nothing. Each VS
\* notification of these handlers thus reports the opposite of the state
\* before it, and the sequence alternates between UP and DOWN.
C39_VsNotifiedIffChanged ==
    /\ [][qlast'.evaluated /\ ~qlast'.init =>
             IF vs'.quorum_state_up # vs.quorum_state_up
             THEN /\ Cardinality(VsLines(fifo')) = 1
                  /\ \A i \in VsLines(fifo') :
                        /\ fifo'[i].state = UpDown(vs'.quorum_state_up)
                        /\ fifo'[i].state # UpDown(vs.quorum_state_up)
             ELSE VsLines(fifo') = {}]_vars
    /\ [][qlast'.op \in {"update_svr_checker_state", "update_svr_wgt"}
              /\ ~qlast'.evaluated =>
             /\ VsLines(fifo') = {}
             /\ vs'.quorum_state_up = vs.quorum_state_up]_vars

\* a weight update lost the quorum and the one VS line says DOWN
C39_WeightUpdateNotifiedDown ==
    /\ qlast.op = "update_svr_wgt"
    /\ qlast.evaluated
    /\ ~vs.quorum_state_up
    /\ Cardinality(VsLines(fifo)) = 1
    /\ VsNotified("DOWN")

\* checker k reporting `alive` makes perform_svr_state call ipvs_cmd
PlaneAttempt(k, alive) ==
    /\ checker[k].is_up # alive
    /\ IF alive THEN rs[CheckerRs(k)].num_failed_checkers <= 1
                ELSE rs[CheckerRs(k)].num_failed_checkers = 0
    /\ rs[CheckerRs(k)].alive # alive
    /\ plane_follows_rs(World)

\* C40: when the ipvs_cmd issued by perform_svr_state fails,
\* update_svr_checker_state leaves rs.alive, checker.is_up and
\* rs.num_failed_checkers as they were, emits no notification and does not
\* re-evaluate the quorum, and the same report makes perform_svr_state call
\* ipvs_cmd again.
C40_FailedPlaneKeepsTransitionPending ==
    [][\A k \in Checkers, alive \in BOOLEAN :
          PlaneAttempt(k, alive) /\ update_svr_checker_state(alive, k, FALSE)
          => /\ qlast'.plane_failed
             /\ rs'[CheckerRs(k)].alive = rs[CheckerRs(k)].alive
             /\ checker'[k].is_up = checker[k].is_up
             /\ rs'[CheckerRs(k)].num_failed_checkers =
                   rs[CheckerRs(k)].num_failed_checkers
             /\ <<vs', rs', s_svr'>> = <<vs, rs, s_svr>>
             /\ fifo' = <<>>
             /\ ~qlast'.evaluated
             /\ PlaneAttempt(k, alive)']_vars

\* a removal that failed in the plane: the server is still alive, its
\* checker still up, and nothing was said
C40_RemovalFailed ==
    /\ qlast.op = "update_svr_checker_state"
    /\ qlast.plane_failed
    /\ ~qlast.evaluated
    /\ fifo = <<>>
    /\ \E k \in Checkers : PlaneAttempt(k, FALSE)

====
